---- MODULE Spec2Model ----
(***************************************************************************)
(* hyprspaces: paired workspaces for two displays.                         *)
(*                                                                         *)
(* The module models                                                       *)
(*   - the daemon core (src/src/daemon.rs): the socket2 event source, the  *)
(*     event classifier, the two debounce controllers and process_event,   *)
(*     driven by the daemon loop of src/src/cli.rs;                        *)
(*   - the control interface (src/src/hyprctl.rs): the batch builders and  *)
(*     the two backends' batch / dispatch calls;                           *)
(*   - the one-shot commands (src/src/commands.rs, src/src/session.rs).    *)
(*                                                                         *)
(* An Instant is the number of milliseconds since the daemon started; the   *)
(* clock advances in steps of Granularity.                                 *)
(***************************************************************************)
EXTENDS Integers, Sequences, FiniteSets, TLC

(***************************************************************************)
(* Bounds of the model.                                                    *)
(***************************************************************************)
\* the clock advances by this many milliseconds at a time
Granularity == 100
\* and stops after this many steps
MaxTicks == 5
MaxTime == MaxTicks * Granularity
\* the wait window handed to the event source, in milliseconds: a parameter
\* of Socket2EventSource::new (the daemon passes DEFAULT_REBALANCE_DEBOUNCE,
\* the tests 10 ms and 1 s); a read may wait longer than the window before
\* it times out, so the behaviours of every longer window are included
ReadTimeout == 100
\* config.paired_offset of the configuration the program was started with
PairedOffset == 2
\* longest client list of a query reply or of a session file
MaxClients == 2
\* highest workspace id an event or a query reports: one past both ranges
MaxWorkspace == (2 * PairedOffset) + 1

(***************************************************************************)
(* Program constants.                                                      *)
(***************************************************************************)
\* Duration::from_millis(200)
DEFAULT_REBALANCE_DEBOUNCE == 200
\* Duration::from_millis(100)
DEFAULT_FOCUS_SWITCH_DEBOUNCE == 100
\* Option::None of an Option<Instant> / Option<u32>
None == -1

\* config.primary_monitor, config.secondary_monitor
Primary == "DP-1"
Secondary == "HDMI-A-1"

\* Instant::duration_since: saturates to zero when `earlier` is later
duration_since(now, earlier) == IF now >= earlier THEN now - earlier ELSE 0

(***************************************************************************)
(* Workspace pairing math (src/src/paired.rs).                             *)
(***************************************************************************)
\* the value returned for id >= 1 and offset >= 1
normalize_workspace(id, offset) == ((id - 1) % offset) + 1

\* u32::MAX is 2 * MaxU32Half + 1
MaxU32Half == 2147483647

\* (0u32.wrapping_sub(1)) % offset, that is u32::MAX % offset
WrappedPredecessorMod(offset) == (((MaxU32Half % offset) * 2) + 1) % offset

Panicked == [panic |-> TRUE, value |-> 0]
ReturnedValue(v) == [panic |-> FALSE, value |-> v]

\* normalize_workspace on all of u32: `id - 1` at id 0 panics where overflow
\* is checked (debug profile) and wraps where it is not (release profile);
\* `% offset` at offset 0 panics
normalize_workspace_u32(id, offset) ==
    IF id = 0
    THEN { Panicked }
         \cup (IF offset = 0 THEN { }
               ELSE { ReturnedValue(WrappedPredecessorMod(offset) + 1) })
    ELSE IF offset = 0 THEN { Panicked }
    ELSE { ReturnedValue(((id - 1) % offset) + 1) }

(***************************************************************************)
(* Batch builders (src/src/hyprctl.rs).  A batch is the sequence of its    *)
(* "dispatch <dispatcher> <argument>" commands; the argument is kept as    *)
(* its fields.                                                             *)
(***************************************************************************)
\* one "dispatch <dispatcher> <argument>" command; a field the argument does
\* not have is 0 (workspace), << >> (workspace name) or "" (monitor, address)
Directive(dispatcher, workspace, name, monitor, address) ==
    [dispatcher |-> dispatcher, workspace |-> workspace, name |-> name,
     monitor |-> monitor, address |-> address]

\* variant: the primary monitor is selected first
paired_switch_batch_primary_first(primary, secondary, workspace, offset) ==
    LET normalized == normalize_workspace(workspace, offset)
        secondary_workspace == normalized + offset
    IN << Directive("focusmonitor", 0, << >>, primary, ""),
          Directive("workspace", normalized, << >>, "", ""),
          Directive("focusmonitor", 0, << >>, secondary, ""),
          Directive("workspace", secondary_workspace, << >>, "", "") >>

paired_switch_batch(primary, secondary, workspace, offset) ==
    LET normalized == normalize_workspace(workspace, offset)
        secondary_workspace == normalized + offset
    IN << Directive("focusmonitor", 0, << >>, secondary, ""),
          Directive("workspace", secondary_workspace, << >>, "", ""),
          Directive("focusmonitor", 0, << >>, primary, ""),
          Directive("workspace", normalized, << >>, "", "") >>

\* variant: the secondary range is half open, (offset + 1)..(offset * 2)
rebalance_batch_half_open(primary, secondary, offset) ==
    [i \in 1..((offset * 2) - 1) |->
        IF i <= offset
        THEN Directive("moveworkspacetomonitor", i, << >>, primary, "")
        ELSE Directive("moveworkspacetomonitor", i, << >>, secondary, "")]

rebalance_batch(primary, secondary, offset) ==
    [i \in 1..(offset * 2) |->
        IF i <= offset
        THEN Directive("moveworkspacetomonitor", i, << >>, primary, "")
        ELSE Directive("moveworkspacetomonitor", i, << >>, secondary, "")]

(***************************************************************************)
(* Control interface calls.  An outcome says whether the call returned Ok  *)
(* and how many directives of it have taken effect in the window manager.  *)
(***************************************************************************)
Backends == {"hyprctl", "native"}

\* Hyprctl::batch: one run of `hyprctl --batch <argument>`; the window
\* manager takes the argument as one unit or the run fails
HyprctlBatchOutcomes(batch) ==
    { [ok |-> TRUE, applied |-> Len(batch)], [ok |-> FALSE, applied |-> 0] }

\* NativeIpc::batch: one dispatch per command, in order, `?` on the first
\* failing one: the commands before it have been dispatched
NativeBatchOutcomes(batch) ==
    { [ok |-> TRUE, applied |-> Len(batch)] }
    \cup { [ok |-> FALSE, applied |-> k - 1] : k \in 1..Len(batch) }

BatchOutcomes(backend, batch) ==
    IF backend = "native" THEN NativeBatchOutcomes(batch)
    ELSE HyprctlBatchOutcomes(batch)

\* the record of one command call in the log of the operation
Call(kind, cmds, outcome) ==
    [kind |-> kind, cmds |-> cmds, ok |-> outcome.ok, applied |-> outcome.applied]

(***************************************************************************)
(* Debounce controllers (src/src/daemon.rs).                               *)
(***************************************************************************)
\* RebalanceDebounce::new
NewRebalanceDebounce(min_interval) ==
    [min_interval |-> min_interval, last_rebalance |-> None,
     last_event |-> None, pending |-> FALSE]

\* variant: half the interval is enough
should_run_now_half_interval(d, now) ==
    IF d.last_rebalance = None THEN TRUE
    ELSE 2 * duration_since(now, d.last_rebalance) >= d.min_interval

\* variant: the interval must have been exceeded, not reached
should_run_now_strict(d, now) ==
    IF d.last_rebalance = None THEN TRUE
    ELSE duration_since(now, d.last_rebalance) > d.min_interval

should_run_now(d, now) ==
    IF d.last_rebalance = None THEN TRUE
    ELSE duration_since(now, d.last_rebalance) >= d.min_interval

\* variant: record_event defers by the time of the previous event
record_event_by_last_event(d, now) ==
    IF d.last_event = None \/ duration_since(now, d.last_event) >= d.min_interval
    THEN [state |-> [d EXCEPT !.last_event = now, !.last_rebalance = now,
                              !.pending = FALSE],
          ret |-> TRUE]
    ELSE [state |-> [d EXCEPT !.last_event = now, !.pending = TRUE],
          ret |-> FALSE]

\* variant: an event inside the interval is dropped, not marked pending
record_event_drops_deferred(d, now) ==
    LET d1 == [d EXCEPT !.last_event = now]
    IN IF should_run_now(d1, now)
       THEN [state |-> [d1 EXCEPT !.last_rebalance = now, !.pending = FALSE],
             ret |-> TRUE]
       ELSE [state |-> d1, ret |-> FALSE]

\* returns the new state and the returned flag
record_event(d, now) ==
    LET d1 == [d EXCEPT !.last_event = now]
    IN IF should_run_now(d1, now)
       THEN [state |-> [d1 EXCEPT !.last_rebalance = now, !.pending = FALSE],
             ret |-> TRUE]
       ELSE [state |-> [d1 EXCEPT !.pending = TRUE], ret |-> FALSE]

\* variant: a flush that runs leaves pending set
flush_keeps_pending(d, now) ==
    IF ~d.pending THEN [state |-> d, ret |-> FALSE]
    ELSE IF d.last_event = None THEN [state |-> d, ret |-> FALSE]
    ELSE IF duration_since(now, d.last_event) < d.min_interval
         THEN [state |-> d, ret |-> FALSE]
    ELSE IF ~should_run_now(d, now) THEN [state |-> d, ret |-> FALSE]
    ELSE [state |-> [d EXCEPT !.last_rebalance = now], ret |-> TRUE]

\* variant: a flush does not wait for the burst to go quiet
flush_without_quiet(d, now) ==
    IF ~d.pending THEN [state |-> d, ret |-> FALSE]
    ELSE IF d.last_event = None THEN [state |-> d, ret |-> FALSE]
    ELSE IF ~should_run_now(d, now) THEN [state |-> d, ret |-> FALSE]
    ELSE [state |-> [d EXCEPT !.pending = FALSE, !.last_rebalance = now],
          ret |-> TRUE]

\* variant: a flush does not ask whether anything is pending
flush_ignores_pending(d, now) ==
    IF d.last_event = None THEN [state |-> d, ret |-> FALSE]
    ELSE IF duration_since(now, d.last_event) < d.min_interval
         THEN [state |-> d, ret |-> FALSE]
    ELSE IF ~should_run_now(d, now) THEN [state |-> d, ret |-> FALSE]
    ELSE [state |-> [d EXCEPT !.pending = FALSE, !.last_rebalance = now],
          ret |-> TRUE]

\* variant: a flush never finds the burst quiet
flush_never_quiet(d, now) == [state |-> d, ret |-> FALSE]

flush(d, now) ==
    IF ~d.pending THEN [state |-> d, ret |-> FALSE]
    ELSE IF d.last_event = None THEN [state |-> d, ret |-> FALSE]
    ELSE IF duration_since(now, d.last_event) < d.min_interval
         THEN [state |-> d, ret |-> FALSE]
    ELSE IF ~should_run_now(d, now) THEN [state |-> d, ret |-> FALSE]
    ELSE [state |-> [d EXCEPT !.pending = FALSE, !.last_rebalance = now],
          ret |-> TRUE]

\* recordEvent as it is specified, for comparison with record_event:
\* last_event is recorded on a deferral only
record_event_as_specified(d, now) ==
    IF should_run_now(d, now)
    THEN [state |-> [d EXCEPT !.last_rebalance = now, !.pending = FALSE],
          ret |-> TRUE]
    ELSE [state |-> [d EXCEPT !.pending = TRUE, !.last_event = now],
          ret |-> FALSE]

\* FocusSwitchDebounce::new
NewFocusSwitchDebounce(min_interval) ==
    [min_interval |-> min_interval, last_switch |-> None, last_workspace |-> None]

\* variant: the slot remembered is the first accepted one
should_switch_keeps_workspace(d, now, workspace) ==
    LET recent_same_workspace ==
            IF d.last_switch # None /\ d.last_workspace # None
               /\ d.last_workspace = workspace
            THEN duration_since(now, d.last_switch) < d.min_interval
            ELSE FALSE
    IN IF recent_same_workspace
       THEN [state |-> d, ret |-> FALSE]
       ELSE [state |-> [d EXCEPT !.last_switch = now,
                                 !.last_workspace =
                                     IF @ = None THEN workspace ELSE @],
             ret |-> TRUE]

\* variant: the time test is inverted
should_switch_inverted(d, now, workspace) ==
    LET recent_same_workspace ==
            IF d.last_switch # None /\ d.last_workspace # None
               /\ d.last_workspace = workspace
            THEN duration_since(now, d.last_switch) >= d.min_interval
            ELSE FALSE
    IN IF recent_same_workspace
       THEN [state |-> d, ret |-> FALSE]
       ELSE [state |-> [d EXCEPT !.last_switch = now, !.last_workspace = workspace],
             ret |-> TRUE]

\* variant: any switch inside the interval is rejected, whatever its target
should_switch_any_target(d, now, workspace) ==
    LET recent ==
            IF d.last_switch # None
            THEN duration_since(now, d.last_switch) < d.min_interval
            ELSE FALSE
    IN IF recent
       THEN [state |-> d, ret |-> FALSE]
       ELSE [state |-> [d EXCEPT !.last_switch = now, !.last_workspace = workspace],
             ret |-> TRUE]

should_switch(d, now, workspace) ==
    LET recent_same_workspace ==
            IF d.last_switch # None /\ d.last_workspace # None
               /\ d.last_workspace = workspace
            THEN duration_since(now, d.last_switch) < d.min_interval
            ELSE FALSE
    IN IF recent_same_workspace
       THEN [state |-> d, ret |-> FALSE]
       ELSE [state |-> [d EXCEPT !.last_switch = now, !.last_workspace = workspace],
             ret |-> TRUE]

(***************************************************************************)
(* Event classifier (src/src/daemon.rs).  A line is `name>>payload`; the   *)
(* payload is the sequence of its comma-separated fields, each with the    *)
(* u32 it parses to (None when it is not a u32) and its text.              *)
(***************************************************************************)
NumField(n) == [num |-> n, text |-> ToString(n)]
TextField(t) == [num |-> None, text |-> t]
Line(sep, name, payload) == [sep |-> sep, name |-> name, payload |-> payload]

\* DaemonEvent; a field the variant does not have is "" or None
MonitorEvent(kind, at) ==
    [type |-> "Monitor", kind |-> kind, at |-> at,
     workspace_id |-> None, window_address |-> ""]
FocusEvent(at, workspace_id, window_address) ==
    [type |-> "Focus", kind |-> "", at |-> at,
     workspace_id |-> workspace_id, window_address |-> window_address]
TimeoutEvent(at) ==
    [type |-> "Timeout", kind |-> "", at |-> at,
     workspace_id |-> None, window_address |-> ""]
DisconnectedEvent ==
    [type |-> "Disconnected", kind |-> "", at |-> None,
     workspace_id |-> None, window_address |-> ""]
\* Option::None of an Option<DaemonEvent>, also the event of a fresh daemon
NoEvent ==
    [type |-> "None", kind |-> "", at |-> None,
     workspace_id |-> None, window_address |-> ""]

\* name.parse().ok(): the whole payload is one u32
parse_workspace_id_from_name(payload) ==
    IF Len(payload) = 1 THEN payload[1].num ELSE None

\* split_once(',') and parse what is before the first comma
parse_first_field(payload) ==
    IF Len(payload) >= 2 THEN payload[1].num ELSE None

\* split_once(',') and parse all that follows the first comma
parse_second_field(payload) ==
    IF Len(payload) = 2 THEN payload[2].num ELSE None

\* payload.trim() of activewindowv2
PayloadText(payload) == IF Len(payload) = 1 THEN payload[1].text ELSE ","

FocusOrNone(workspace_id, at) ==
    IF workspace_id = None THEN NoEvent ELSE FocusEvent(at, workspace_id, "")

\* variant: a line without ">>" is classified by its name all the same
parse_socket2_event_unseparated(line, at) ==
    IF line.name \in {"monitoradded", "monitoraddedv2"}
    THEN MonitorEvent("Added", at)
    ELSE IF line.name \in {"monitorremoved", "monitorremovedv2"}
         THEN MonitorEvent("Removed", at)
    ELSE IF line.name = "workspacev2"
         THEN FocusOrNone(parse_first_field(line.payload), at)
    ELSE IF line.name = "workspace"
         THEN FocusOrNone(parse_workspace_id_from_name(line.payload), at)
    ELSE IF line.name \in {"focusedmonv2", "focusedmon"}
         THEN FocusOrNone(parse_second_field(line.payload), at)
    ELSE IF line.name = "activewindowv2"
         THEN IF PayloadText(line.payload) = "" THEN NoEvent
              ELSE FocusEvent(at, None, PayloadText(line.payload))
    ELSE NoEvent

parse_socket2_event(line, at) ==
    IF ~line.sep THEN NoEvent
    ELSE IF line.name \in {"monitoradded", "monitoraddedv2"}
         THEN MonitorEvent("Added", at)
    ELSE IF line.name \in {"monitorremoved", "monitorremovedv2"}
         THEN MonitorEvent("Removed", at)
    ELSE IF line.name = "workspacev2"
         THEN FocusOrNone(parse_first_field(line.payload), at)
    ELSE IF line.name = "workspace"
         THEN FocusOrNone(parse_workspace_id_from_name(line.payload), at)
    ELSE IF line.name \in {"focusedmonv2", "focusedmon"}
         THEN FocusOrNone(parse_second_field(line.payload), at)
    ELSE IF line.name = "activewindowv2"
         THEN IF PayloadText(line.payload) = "" THEN NoEvent
              ELSE FocusEvent(at, None, PayloadText(line.payload))
    ELSE NoEvent

(***************************************************************************)
(* Client list query.  A reply is an error or the list of live clients.    *)
(***************************************************************************)
\* Option<String>: a string is the sequence of its characters
SomeStr(v) == [some |-> TRUE, value |-> v]
NoneStr == [some |-> FALSE, value |-> << >>]

\* ClientInfo with its WorkspaceRef
ClientInfo(address, id, name, class, title, initial_class, app_id) ==
    [address |-> address, workspace |-> [id |-> id, name |-> name],
     class |-> class, title |-> title, initial_class |-> initial_class,
     app_id |-> app_id]

\* the addresses the window manager hands out
Addresses == {"0x1", "0x2"}

\* replies of hyprctl.clients() to the daemon: an error, no client, or one
\* client on some workspace
DaemonClientsReplies ==
    { [ok |-> FALSE, clients |-> << >>], [ok |-> TRUE, clients |-> << >>] }
    \cup { [ok |-> TRUE,
            clients |-> << ClientInfo("0x1", w, SomeStr(<< ToString(w) >>),
                                   NoneStr, NoneStr, NoneStr, NoneStr) >>]
          : w \in 0..MaxWorkspace }

\* clients.iter().find(|client| client.address == address)
\*        .map(|client| client.workspace.id)
FindWorkspaceOf(clients, address) ==
    LET hits == { i \in 1..Len(clients) : clients[i].address = address }
    IN IF hits = {} THEN None
       ELSE clients[CHOOSE i \in hits : \A j \in hits : i <= j].workspace.id

(***************************************************************************)
(* Event handlers (src/src/daemon.rs).  Each returns the set of its        *)
(* possible outcomes: the debounce state it leaves, the command calls it   *)
(* made and the Result it returned (a focus handler also the workspace id  *)
(* it resolved the event to).                                              *)
(***************************************************************************)
BatchResult(outcome) == IF outcome.ok THEN "Ok(true)" ELSE "Err"

rebalance_for_event_at(backend, kind, debounce, now) ==
    LET batch == rebalance_batch(Primary, Secondary, PairedOffset)
        r == record_event(debounce, now)
    IN IF r.ret
       THEN { [rb |-> r.state, calls |-> << Call("batch", batch, o) >>,
               result |-> BatchResult(o)] : o \in BatchOutcomes(backend, batch) }
       ELSE { [rb |-> r.state, calls |-> << >>, result |-> "Ok(false)"] }

\* variant: the debounce is advanced only once the batch has succeeded
flush_pending_rebalance_at_batch_first(backend, debounce, now) ==
    LET r == flush(debounce, now)
        batch == rebalance_batch(Primary, Secondary, PairedOffset)
    IN IF r.ret
       THEN { [rb |-> IF o.ok THEN r.state ELSE debounce,
               calls |-> << Call("batch", batch, o) >>,
               result |-> BatchResult(o)] : o \in BatchOutcomes(backend, batch) }
       ELSE { [rb |-> r.state, calls |-> << >>, result |-> "Ok(false)"] }

flush_pending_rebalance_at(backend, debounce, now) ==
    LET r == flush(debounce, now)
        batch == rebalance_batch(Primary, Secondary, PairedOffset)
    IN IF r.ret
       THEN { [rb |-> r.state, calls |-> << Call("batch", batch, o) >>,
               result |-> BatchResult(o)] : o \in BatchOutcomes(backend, batch) }
       ELSE { [rb |-> r.state, calls |-> << >>, result |-> "Ok(false)"] }

\* variant: the batch ends on the monitor that shows the event's workspace
SwitchToWorkspace_event_monitor_last(backend, focus, debounce, workspace_id) ==
    IF ~(workspace_id # None /\ workspace_id > 0)
    THEN { [fd |-> debounce, calls |-> << >>, result |-> "Ok(false)",
            workspace_id |-> workspace_id] }
    ELSE LET base_workspace == normalize_workspace(workspace_id, PairedOffset)
             r == should_switch(debounce, focus.at, base_workspace)
             batch == IF workspace_id > PairedOffset
                      THEN paired_switch_batch_primary_first(Primary,
                               Secondary, workspace_id, PairedOffset)
                      ELSE paired_switch_batch(Primary, Secondary,
                               workspace_id, PairedOffset)
         IN IF ~r.ret
            THEN { [fd |-> r.state, calls |-> << >>, result |-> "Ok(false)",
                    workspace_id |-> workspace_id] }
            ELSE { [fd |-> r.state, calls |-> << Call("batch", batch, o) >>,
                    result |-> BatchResult(o), workspace_id |-> workspace_id]
                   : o \in BatchOutcomes(backend, batch) }

\* the part of focus_switch_for_focus_event_at after the workspace id of the
\* event is known
SwitchToWorkspace(backend, focus, debounce, workspace_id) ==
    IF ~(workspace_id # None /\ workspace_id > 0)
    THEN { [fd |-> debounce, calls |-> << >>, result |-> "Ok(false)",
            workspace_id |-> workspace_id] }
    ELSE LET base_workspace == normalize_workspace(workspace_id, PairedOffset)
             r == should_switch(debounce, focus.at, base_workspace)
             batch == paired_switch_batch(Primary, Secondary, workspace_id,
                                          PairedOffset)
         IN IF ~r.ret
            THEN { [fd |-> r.state, calls |-> << >>, result |-> "Ok(false)",
                    workspace_id |-> workspace_id] }
            ELSE { [fd |-> r.state, calls |-> << Call("batch", batch, o) >>,
                    result |-> BatchResult(o), workspace_id |-> workspace_id]
                   : o \in BatchOutcomes(backend, batch) }

focus_switch_for_focus_event_at(backend, focus, debounce) ==
    IF focus.workspace_id # None
    THEN SwitchToWorkspace(backend, focus, debounce, focus.workspace_id)
    ELSE IF focus.window_address # ""
    THEN UNION { IF ~reply.ok
                 THEN { [fd |-> debounce, calls |-> << >>, result |-> "Err",
                         workspace_id |-> None] }
                 ELSE SwitchToWorkspace(backend, focus, debounce,
                          FindWorkspaceOf(reply.clients, focus.window_address))
                 : reply \in DaemonClientsReplies }
    ELSE SwitchToWorkspace(backend, focus, debounce, None)

\* variant: a focus event is recorded in the rebalance debounce as well
process_event_focus_recorded(backend, rebalance_debounce, focus_debounce, event) ==
    IF event.type = "Focus"
    THEN { [rb |-> record_event(rebalance_debounce, event.at).state,
            fd |-> o.fd, calls |-> o.calls,
            result |-> o.result, workspace_id |-> o.workspace_id]
           : o \in focus_switch_for_focus_event_at(backend, event, focus_debounce) }
    ELSE IF event.type = "Monitor"
    THEN { [rb |-> o.rb, fd |-> focus_debounce, calls |-> o.calls,
            result |-> o.result, workspace_id |-> None]
           : o \in rebalance_for_event_at(backend, event.kind,
                                          rebalance_debounce, event.at) }
    ELSE IF event.type = "Timeout"
    THEN { [rb |-> o.rb, fd |-> focus_debounce, calls |-> o.calls,
            result |-> o.result, workspace_id |-> None]
           : o \in flush_pending_rebalance_at(backend, rebalance_debounce,
                                              event.at) }
    ELSE { [rb |-> rebalance_debounce, fd |-> focus_debounce, calls |-> << >>,
            result |-> "Ok(false)", workspace_id |-> None] }

process_event(backend, rebalance_debounce, focus_debounce, event) ==
    IF event.type = "Focus"
    THEN { [rb |-> rebalance_debounce, fd |-> o.fd, calls |-> o.calls,
            result |-> o.result, workspace_id |-> o.workspace_id]
           : o \in focus_switch_for_focus_event_at(backend, event, focus_debounce) }
    ELSE IF event.type = "Monitor"
    THEN { [rb |-> o.rb, fd |-> focus_debounce, calls |-> o.calls,
            result |-> o.result, workspace_id |-> None]
           : o \in rebalance_for_event_at(backend, event.kind,
                                          rebalance_debounce, event.at) }
    ELSE IF event.type = "Timeout"
    THEN { [rb |-> o.rb, fd |-> focus_debounce, calls |-> o.calls,
            result |-> o.result, workspace_id |-> None]
           : o \in flush_pending_rebalance_at(backend, rebalance_debounce,
                                              event.at) }
    ELSE { [rb |-> rebalance_debounce, fd |-> focus_debounce, calls |-> << >>,
            result |-> "Ok(false)", workspace_id |-> None] }

(***************************************************************************)
(* The lines the notification stream delivers.                             *)
(***************************************************************************)
SocketLines ==
    { Line(TRUE, n, << TextField("DP-1") >>)
      : n \in {"monitoradded", "monitorremoved", "focusedmon", "openwindow"} }
    \cup { Line(TRUE, n, << NumField(1), TextField("DP-1"), TextField("desc") >>)
           : n \in {"monitoraddedv2", "monitorremovedv2", "focusedmonv2"} }
    \cup { Line(TRUE, "workspacev2", << NumField(w), TextField("name") >>)
           : w \in 0..MaxWorkspace }
    \cup { Line(TRUE, "workspace", << NumField(w) >>) : w \in 0..MaxWorkspace }
    \cup { Line(TRUE, n, << TextField("DP-1"), NumField(w) >>)
           : n \in {"focusedmon", "focusedmonv2"}, w \in 0..MaxWorkspace }
    \cup { Line(TRUE, "activewindowv2", << TextField(a) >>)
           : a \in Addresses \cup {""} }
    \cup { Line(TRUE, "workspace", << TextField("special:magic") >>),
           Line(TRUE, "workspacev2", << TextField("name") >>),
           Line(FALSE, "monitoradded", << >>),
           Line(FALSE, "", << >>) }

(***************************************************************************)
(* Configuration loading (src/src/config.rs).  A raw configuration is the  *)
(* parsed JSON object: a monitor name is absent (NoneName), empty or a     *)
(* name; a number is absent (None) or a u32.                               *)
(***************************************************************************)
DEFAULT_PAIRED_OFFSET == 10

NoneName == "<none>"

RawConfig(primary_monitor, secondary_monitor, paired_offset, workspace_count) ==
    [primary_monitor |-> primary_monitor,
     secondary_monitor |-> secondary_monitor,
     paired_offset |-> IF paired_offset = None THEN DEFAULT_PAIRED_OFFSET
                       ELSE paired_offset,
     workspace_count |-> workspace_count]

\* Config::from_json after serde: Err for a monitor that is missing or
\* empty, else the configuration
from_json(raw) ==
    IF raw.primary_monitor \in {NoneName, ""} THEN [ok |-> FALSE]
    ELSE IF raw.secondary_monitor \in {NoneName, ""} THEN [ok |-> FALSE]
    ELSE LET workspace_count == IF raw.workspace_count = None
                                THEN raw.paired_offset
                                ELSE raw.workspace_count
         IN [ok |-> TRUE,
             primary_monitor |-> raw.primary_monitor,
             secondary_monitor |-> raw.secondary_monitor,
             paired_offset |-> workspace_count,
             workspace_count |-> workspace_count]

(***************************************************************************)
(* Pairing math (src/src/paired.rs).                                       *)
(***************************************************************************)
CycleDirections == {"Next", "Prev"}

\* variant: Prev with wrap adds offset - 1, not offset - 2
cycle_target_prev_off_by_one(base, offset, direction, wrap) ==
    IF direction = "Next"
    THEN IF wrap THEN (base % offset) + 1
         ELSE IF base >= offset THEN offset
         ELSE base + 1
    ELSE IF wrap THEN ((base + offset - 1) % offset) + 1
         ELSE IF base <= 1 THEN 1
         ELSE base - 1

\* variant: Next without wrap clamps only beyond the last slot
cycle_target_late_clamp(base, offset, direction, wrap) ==
    IF direction = "Next"
    THEN IF wrap THEN (base % offset) + 1
         ELSE IF base > offset THEN offset
         ELSE base + 1
    ELSE IF wrap THEN ((base + offset - 2) % offset) + 1
         ELSE IF base <= 1 THEN 1
         ELSE base - 1

cycle_target(base, offset, direction, wrap) ==
    IF direction = "Next"
    THEN IF wrap THEN (base % offset) + 1
         ELSE IF base >= offset THEN offset
         ELSE base + 1
    ELSE IF wrap THEN ((base + offset - 2) % offset) + 1
         ELSE IF base <= 1 THEN 1
         ELSE base - 1

(***************************************************************************)
(* One-shot commands (src/src/commands.rs, src/src/daemon.rs).  Each       *)
(* returns the set of its possible outcomes: the command calls it made, in *)
(* order, and the Result it returned.                                      *)
(***************************************************************************)
\* HyprlandIpc::dispatch: one command, taken or refused
DispatchOutcomes ==
    { [ok |-> TRUE, applied |-> 1], [ok |-> FALSE, applied |-> 0] }

\* replies of hyprctl.active_workspace_id(): an error or the id
ActiveWorkspaceReplies ==
    { [ok |-> FALSE, id |-> 0] }
    \cup { [ok |-> TRUE, id |-> w] : w \in 1..MaxWorkspace }

CommandResult(outcome) == IF outcome.ok THEN "Ok" ELSE "Err"

Failed == { [calls |-> << >>, result |-> "Err"] }

rebalance_all(backend) ==
    LET batch == rebalance_batch(Primary, Secondary, PairedOffset)
    IN { [calls |-> << Call("batch", batch, o) >>, result |-> CommandResult(o)]
         : o \in BatchOutcomes(backend, batch) }

\* variant: the last workspace of the primary range counts as secondary
focus_monitor_from_offset(active_workspace) ==
    IF active_workspace >= PairedOffset THEN Secondary ELSE Primary

focus_monitor_for_active_workspace(active_workspace) ==
    IF active_workspace > PairedOffset THEN Secondary ELSE Primary

\* the four directives of a paired switch with the monitor that keeps the
\* focus selected last, as the tests of src/src/commands.rs expect them
\* (cycles_to_next_workspace, move_window_keeps_focus_on_secondary_monitor)
paired_switch_batch_with_focus(primary, secondary, workspace, offset, focus_monitor) ==
    LET normalized == normalize_workspace(workspace, offset)
        secondary_workspace == normalized + offset
    IN IF focus_monitor = secondary
       THEN << Directive("focusmonitor", 0, << >>, primary, ""),
               Directive("workspace", normalized, << >>, "", ""),
               Directive("focusmonitor", 0, << >>, secondary, ""),
               Directive("workspace", secondary_workspace, << >>, "", "") >>
       ELSE << Directive("focusmonitor", 0, << >>, secondary, ""),
               Directive("workspace", secondary_workspace, << >>, "", ""),
               Directive("focusmonitor", 0, << >>, primary, ""),
               Directive("workspace", normalized, << >>, "", "") >>

paired_switch_with_focus(backend, workspace, focus_monitor) ==
    LET batch == paired_switch_batch_with_focus(Primary, Secondary, workspace,
                                                PairedOffset, focus_monitor)
    IN { [calls |-> << Call("batch", batch, o) >>, result |-> CommandResult(o)]
         : o \in BatchOutcomes(backend, batch) }

paired_switch(backend, active, workspace) ==
    IF ~active.ok THEN Failed
    ELSE paired_switch_with_focus(backend, workspace,
             focus_monitor_for_active_workspace(active.id))

paired_cycle(backend, active, direction, wrap) ==
    IF ~active.ok THEN Failed
    ELSE LET base == normalize_workspace(active.id, PairedOffset)
             target == cycle_target(base, PairedOffset, direction, wrap)
         IN paired_switch_with_focus(backend, target,
                focus_monitor_for_active_workspace(active.id))

\* variant: the move is put into the batch of the switch, one call in all
paired_move_window_batched(backend, active, workspace) ==
    IF ~active.ok THEN Failed
    ELSE LET normalized == normalize_workspace(workspace, PairedOffset)
             target == IF active.id > PairedOffset
                       THEN normalized + PairedOffset ELSE normalized
             batch == << Directive("movetoworkspacesilent", target, << >>, "", "") >>
                      \o paired_switch_batch_with_focus(Primary, Secondary,
                             normalized, PairedOffset,
                             focus_monitor_for_active_workspace(active.id))
         IN { [calls |-> << Call("batch", batch, o) >>,
               result |-> CommandResult(o)]
              : o \in BatchOutcomes(backend, batch) }

paired_move_window(backend, active, workspace) ==
    IF ~active.ok THEN Failed
    ELSE LET normalized == normalize_workspace(workspace, PairedOffset)
             focus_monitor == focus_monitor_for_active_workspace(active.id)
             target == IF active.id > PairedOffset
                       THEN normalized + PairedOffset ELSE normalized
             move == << Directive("movetoworkspacesilent", target, << >>, "", "") >>
         IN UNION { IF ~d.ok
                    THEN { [calls |-> << Call("dispatch", move, d) >>,
                            result |-> "Err"] }
                    ELSE { [calls |-> << Call("dispatch", move, d) >> \o o.calls,
                            result |-> o.result]
                           : o \in paired_switch_with_focus(backend, normalized,
                                                            focus_monitor) }
                    : d \in DispatchOutcomes }

\* the windows to bring back to the primary range: every client on a
\* workspace above the offset, with the slot of that workspace as target
\* (test migrates_windows_from_secondary of src/src/commands.rs)
migration_targets(clients, offset) ==
    LET Pick[i \in 0..Len(clients)] ==
            IF i = 0 THEN << >>
            ELSE IF clients[i].workspace.id > offset
                 THEN Append(Pick[i - 1],
                             [address |-> clients[i].address,
                              target |-> normalize_workspace(
                                             clients[i].workspace.id, offset)])
                 ELSE Pick[i - 1]
    IN Pick[Len(clients)]

MigrateDirective(t) ==
    Directive("movetoworkspacesilent", t.target, << >>, "", t.address)

migrate_windows(backend, reply) ==
    IF ~reply.ok THEN Failed
    ELSE LET targets == migration_targets(reply.clients, PairedOffset)
             n == Len(targets)
             Ok(i) == Call("dispatch", << MigrateDirective(targets[i]) >>,
                           [ok |-> TRUE, applied |-> 1])
             Refused(i) == Call("dispatch", << MigrateDirective(targets[i]) >>,
                                [ok |-> FALSE, applied |-> 0])
         IN { [calls |-> [i \in 1..n |-> Ok(i)],
               result |-> "Ok"] }
            \cup { [calls |-> [i \in 1..k |-> IF i < k THEN Ok(i) ELSE Refused(i)],
                    result |-> "Err"] : k \in 1..n }

(***************************************************************************)
(* Session restore (src/src/session.rs).                                   *)
(***************************************************************************)
SESSION_VERSION == 1

RestoreModes == {"Auto", "Same", "Cold"}

SnapshotClient(address, class, title, initial_class, app_id, workspace_id, workspace_name, paired_slot) ==
    [address |-> address, class |-> class, title |-> title,
     initial_class |-> initial_class, app_id |-> app_id,
     workspace_id |-> workspace_id, workspace_name |-> workspace_name,
     paired_slot |-> paired_slot]

SessionSnapshot(version, signature, clients) ==
    [version |-> version, signature |-> signature, clients |-> clients]

SpecialPrefix == << "s", "p", "e", "c", "i", "a", "l", ":" >>

starts_with(value, prefix) ==
    /\ Len(value) >= Len(prefix)
    /\ SubSeq(value, 1, Len(prefix)) = prefix

is_special_workspace_name(name) ==
    name.some /\ starts_with(name.value, SpecialPrefix)

\* char::to_lowercase on the letters of the model's strings
to_lowercase(c) ==
    CASE c = "A" -> "a"
      [] c = "B" -> "b"
      [] c = "T" -> "t"
      [] OTHER -> c

RECURSIVE trim_start(_)
trim_start(value) ==
    IF value # << >> /\ Head(value) = " " THEN trim_start(Tail(value))
    ELSE value

RECURSIVE trim_end(_)
trim_end(value) ==
    IF value # << >> /\ value[Len(value)] = " "
    THEN trim_end(SubSeq(value, 1, Len(value) - 1))
    ELSE value

normalize_value(value) ==
    LET trimmed == trim_end(trim_start(value))
    IN [i \in 1..Len(trimmed) |-> to_lowercase(trimmed[i])]

normalized_eq(left, right) ==
    /\ left.some
    /\ right.some
    /\ normalize_value(left.value) = normalize_value(right.value)

match_score(snapshot, client) ==
    (IF normalized_eq(snapshot.app_id, client.app_id) THEN 4 ELSE 0)
    + (IF normalized_eq(snapshot.class, client.class) THEN 3 ELSE 0)
    + (IF normalized_eq(snapshot.initial_class, client.initial_class)
       THEN 2 ELSE 0)
    + (IF normalized_eq(snapshot.title, client.title) THEN 1 ELSE 0)

\* the "<target>" of "movetoworkspacesilent <target>,address:<address>": the
\* name of a special workspace, the id of any other
workspace_target(snapshot) ==
    IF is_special_workspace_name(snapshot.workspace_name)
    THEN [workspace |-> 0, name |-> snapshot.workspace_name.value]
    ELSE [workspace |-> snapshot.workspace_id, name |-> << >>]

MoveTo(target, address) ==
    Directive("movetoworkspacesilent", target.workspace, target.name, "",
              address)

\* variant: the numeric id is compared for a special workspace as well
snapshot_matches_current_by_id(snapshot, current_id, current_name) ==
    snapshot.workspace_id = current_id

snapshot_matches_current(snapshot, current_id, current_name) ==
    IF is_special_workspace_name(snapshot.workspace_name)
    THEN snapshot.workspace_name = current_name
    ELSE snapshot.workspace_id = current_id

\* variant: equal signatures suffice, an absent one on both sides included
resolve_restore_mode_equal_only(mode, snapshot_signature, current_signature) ==
    IF mode = "Auto"
    THEN IF snapshot_signature = current_signature THEN "Same" ELSE "Cold"
    ELSE mode

resolve_restore_mode(mode, snapshot_signature, current_signature) ==
    IF mode = "Auto"
    THEN IF snapshot_signature.some /\ snapshot_signature = current_signature
         THEN "Same" ELSE "Cold"
    ELSE mode

\* current_by_address.get(address): the last live client inserted under it,
\* 0 when there is none
CurrentByAddress(current_clients, address) ==
    LET hits == { i \in 1..Len(current_clients) :
                    current_clients[i].address = address }
    IN IF hits = {} THEN 0
       ELSE CHOOSE i \in hits : \A j \in hits : j <= i

\* variant: a live client is moved also when it is where it was recorded
RestoreSameClient_moves_always(batch, client, current_clients, c) ==
    IF c # 0
    THEN Append(batch, MoveTo(workspace_target(client), client.address))
    ELSE batch

\* one turn of the loop of restore_same_session: c is the live client found
\* under the address of the snapshot client (0: none)
RestoreSameClient(batch, client, current_clients, c) ==
    IF c # 0
       /\ ~snapshot_matches_current(client, current_clients[c].workspace.id,
                                    current_clients[c].workspace.name)
    THEN Append(batch, MoveTo(workspace_target(client), client.address))
    ELSE batch

restore_same_session(snapshot, current_clients) ==
    LET Batch[i \in 0..Len(snapshot.clients)] ==
            IF i = 0 THEN << >>
            ELSE RestoreSameClient(Batch[i - 1], snapshot.clients[i],
                     current_clients,
                     CurrentByAddress(current_clients,
                                      snapshot.clients[i].address))
    IN Batch[Len(snapshot.clients)]

\* variant: a snapshot client already used stays a candidate
ScanCandidate_reuses_used(acc, idx, score, used_snapshot) ==
    IF score = 0 THEN acc
    ELSE IF acc.best = 0
    THEN [acc EXCEPT !.best = idx, !.score = score]
    ELSE IF score > acc.score
    THEN [best |-> idx, score |-> score,
          second_best |-> IF acc.second_best > acc.score
                          THEN acc.second_best ELSE acc.score]
    ELSE IF score = acc.score
    THEN [acc EXCEPT !.second_best = acc.score]
    ELSE IF score > acc.second_best
    THEN [acc EXCEPT !.second_best = score]
    ELSE acc

\* variant: a candidate that equals the best so far is passed over
ScanCandidate_ignores_equal(acc, idx, score, used_snapshot) ==
    IF idx \in used_snapshot \/ score = 0 THEN acc
    ELSE IF acc.best = 0
    THEN [acc EXCEPT !.best = idx, !.score = score]
    ELSE IF score > acc.score
    THEN [best |-> idx, score |-> score,
          second_best |-> IF acc.second_best > acc.score
                          THEN acc.second_best ELSE acc.score]
    ELSE IF score = acc.score
    THEN acc
    ELSE IF score > acc.second_best
    THEN [acc EXCEPT !.second_best = score]
    ELSE acc

\* one turn of the inner loop of restore_cold_session: candidate idx with
\* its score against the best (index 0: none yet) and second best so far
ScanCandidate(acc, idx, score, used_snapshot) ==
    IF idx \in used_snapshot \/ score = 0 THEN acc
    ELSE IF acc.best = 0
    THEN [acc EXCEPT !.best = idx, !.score = score]
    ELSE IF score > acc.score
    THEN [best |-> idx, score |-> score,
          second_best |-> IF acc.second_best > acc.score
                          THEN acc.second_best ELSE acc.score]
    ELSE IF score = acc.score
    THEN [acc EXCEPT !.second_best = acc.score]
    ELSE IF score > acc.second_best
    THEN [acc EXCEPT !.second_best = score]
    ELSE acc

\* the inner loop over the snapshot clients, for one live client
BestCandidate(snapshot, client, used_snapshot) ==
    LET Scan[idx \in 0..Len(snapshot.clients)] ==
            IF idx = 0 THEN [best |-> 0, score |-> 0, second_best |-> 0]
            ELSE ScanCandidate(Scan[idx - 1], idx,
                               match_score(snapshot.clients[idx], client),
                               used_snapshot)
    IN Scan[Len(snapshot.clients)]

\* variant: a best score of 3 is enough
AcceptCandidate_from_3(acc, snapshot, client, b) ==
    IF b.best # 0 /\ b.score >= 3 /\ b.score > b.second_best
    THEN [batch |->
            IF client.workspace.id # snapshot.clients[b.best].workspace_id
            THEN Append(acc.batch,
                        MoveTo(workspace_target(snapshot.clients[b.best]),
                               client.address))
            ELSE acc.batch,
          used_snapshot |-> acc.used_snapshot \cup {b.best},
          matched_addresses |-> acc.matched_addresses \cup {client.address}]
    ELSE acc

\* variant: the move is addressed to the address the snapshot recorded
AcceptCandidate_snapshot_address(acc, snapshot, client, b) ==
    IF b.best # 0 /\ b.score >= 4 /\ b.score > b.second_best
    THEN [batch |->
            IF client.workspace.id # snapshot.clients[b.best].workspace_id
            THEN Append(acc.batch,
                        MoveTo(workspace_target(snapshot.clients[b.best]),
                               snapshot.clients[b.best].address))
            ELSE acc.batch,
          used_snapshot |-> acc.used_snapshot \cup {b.best},
          matched_addresses |-> acc.matched_addresses \cup {client.address}]
    ELSE acc

\* variant: a candidate that ties with another is accepted
AcceptCandidate_on_tie(acc, snapshot, client, b) ==
    IF b.best # 0 /\ b.score >= 4 /\ b.score >= b.second_best
    THEN [batch |->
            IF client.workspace.id # snapshot.clients[b.best].workspace_id
            THEN Append(acc.batch,
                        MoveTo(workspace_target(snapshot.clients[b.best]),
                               client.address))
            ELSE acc.batch,
          used_snapshot |-> acc.used_snapshot \cup {b.best},
          matched_addresses |-> acc.matched_addresses \cup {client.address}]
    ELSE acc

\* the end of one turn of the first loop: the best candidate is accepted if
\* it is an unambiguous winner, and the client moved if it is elsewhere
AcceptCandidate(acc, snapshot, client, b) ==
    IF b.best # 0 /\ b.score >= 4 /\ b.score > b.second_best
    THEN [batch |->
            IF client.workspace.id # snapshot.clients[b.best].workspace_id
            THEN Append(acc.batch,
                        MoveTo(workspace_target(snapshot.clients[b.best]),
                               client.address))
            ELSE acc.batch,
          used_snapshot |-> acc.used_snapshot \cup {b.best},
          matched_addresses |-> acc.matched_addresses \cup {client.address}]
    ELSE acc

MatchClient(acc, snapshot, client) ==
    AcceptCandidate(acc, snapshot, client,
                    BestCandidate(snapshot, client, acc.used_snapshot))

\* the first loop of restore_cold_session over the live clients
ColdMatches(snapshot, current_clients) ==
    LET Loop[i \in 0..Len(current_clients)] ==
            IF i = 0
            THEN [batch |-> << >>, used_snapshot |-> {},
                  matched_addresses |-> {}]
            ELSE MatchClient(Loop[i - 1], snapshot, current_clients[i])
    IN Loop[Len(current_clients)]

\* variant: a client on a special workspace is moved to a slot as well
RenormalizeClient_special_too(batch, matched_addresses, client, offset) ==
    IF client.address \in matched_addresses
       \/ normalize_workspace(client.workspace.id, offset) = client.workspace.id
    THEN batch
    ELSE Append(batch,
                MoveTo([workspace |-> normalize_workspace(client.workspace.id,
                                                          offset),
                        name |-> << >>],
                       client.address))

\* one turn of the second loop: a client left unmatched and not on a special
\* workspace is moved to its slot
RenormalizeClient(batch, matched_addresses, client, offset) ==
    IF client.address \in matched_addresses
       \/ is_special_workspace_name(client.workspace.name)
       \/ normalize_workspace(client.workspace.id, offset) = client.workspace.id
    THEN batch
    ELSE Append(batch,
                MoveTo([workspace |-> normalize_workspace(client.workspace.id,
                                                          offset),
                        name |-> << >>],
                       client.address))

\* the second loop of restore_cold_session over the live clients
RenormalizeUnmatched(matches, current_clients, offset) ==
    LET Loop[i \in 0..Len(current_clients)] ==
            IF i = 0 THEN matches.batch
            ELSE RenormalizeClient(Loop[i - 1], matches.matched_addresses,
                                   current_clients[i], offset)
    IN Loop[Len(current_clients)]

restore_cold_session(snapshot, current_clients, offset) ==
    RenormalizeUnmatched(ColdMatches(snapshot, current_clients),
                         current_clients, offset)

restore_batch(snapshot, mode, current_signature, current_clients, offset) ==
    LET resolved == resolve_restore_mode(mode, snapshot.signature,
                                         current_signature)
    IN IF resolved = "Same"
       THEN restore_same_session(snapshot, current_clients)
       ELSE IF resolved = "Cold"
       THEN restore_cold_session(snapshot, current_clients, offset)
       ELSE << >>

\* the session file as restore_session finds it: unreadable, not a
\* snapshot, or a snapshot
SessionFile(kind, snapshot) == [kind |-> kind, snapshot |-> snapshot]

\* the end of restore_session: the batch is sent unless it is empty
SendUnlessEmpty(backend, batch) ==
    IF batch = << >>
    THEN { [calls |-> << >>, result |-> "Ok"] }
    ELSE { [calls |-> << Call("batch", batch, o) >>,
            result |-> CommandResult(o)]
           : o \in BatchOutcomes(backend, batch) }

restore_session(backend, file, reply, mode, signature) ==
    IF file.kind # "snapshot" THEN Failed
    ELSE IF ~reply.ok THEN Failed
    ELSE SendUnlessEmpty(backend,
             restore_batch(file.snapshot, mode, signature, reply.clients,
                           PairedOffset))

(***************************************************************************)
(* State.                                                                  *)
(***************************************************************************)
VARIABLES
    ipc,                 \* the backend chosen with --ipc
    now,                 \* the monotonic clock, Instant::now()
    waitStart,           \* when the read of the stream in progress began
    loop,                \* "running", "stopped" (stream closed), "failed" (Err)
    rebalance_debounce,  \* RebalanceDebounce
    focus_debounce,      \* FocusSwitchDebounce
    event,               \* what the last read of the stream delivered
    result,              \* what its handler (or the last command) returned
    calls,               \* the command calls that handler (or command) made
    hist,                \* history of the run, written but never read by it
    op,                  \* the one-shot command run last, with its inputs
    channel              \* the mpsc channel of the native event source

vars == << ipc, now, waitStart, loop, rebalance_debounce, focus_debounce,
           event, result, calls, hist, op, channel >>

daemonVars == << now, waitStart, loop, rebalance_debounce, focus_debounce,
                 event, hist, channel >>

Slots == 1..PairedOffset

\* the alternations of focus between slots the history counts
MaxAlternations == 3

\* history: when the last monitor event arrived, how long after the one
\* before it and whether it ran; when the last rebalance batch was issued;
\* whether a flush ran since the last monitor event; when a switch was last
\* accepted for each slot and the slot of the last accepted one; how many
\* events in a row were accepted switches that each went to another slot
\* than the one before, inside the interval (counted up to MaxAlternations)
InitHist ==
    [prevMonAt |-> None, lastGap |-> None, lastMon |-> "none",
     lastBatchAt |-> None, flushed |-> FALSE,
     acceptedAt |-> [s \in Slots |-> None], lastSlot |-> None,
     alternations |-> 0]

NextHist(h, e, o) ==
    IF e.type = "Monitor"
    THEN [h EXCEPT !.prevMonAt = e.at,
                   !.lastGap = IF h.prevMonAt = None THEN None
                               ELSE e.at - h.prevMonAt,
                   !.lastMon = IF o.calls # << >> THEN "ran" ELSE "deferred",
                   !.lastBatchAt = IF o.calls # << >> THEN e.at ELSE @,
                   !.flushed = FALSE, !.alternations = 0]
    ELSE IF e.type = "Timeout" /\ o.calls # << >>
    THEN [h EXCEPT !.lastBatchAt = e.at, !.flushed = TRUE,
                   !.alternations = 0]
    ELSE IF e.type = "Focus" /\ o.calls # << >>
    THEN [h EXCEPT
            !.acceptedAt[normalize_workspace(o.workspace_id, PairedOffset)] = e.at,
            !.lastSlot = normalize_workspace(o.workspace_id, PairedOffset),
            !.alternations =
                IF /\ h.lastSlot # None
                   /\ h.lastSlot # normalize_workspace(o.workspace_id, PairedOffset)
                   /\ e.at - h.acceptedAt[h.lastSlot]
                         < DEFAULT_FOCUS_SWITCH_DEBOUNCE
                THEN IF @ < MaxAlternations THEN @ + 1 ELSE @
                ELSE 0]
    ELSE [h EXCEPT !.alternations = 0]

NoOp == [name |-> "none", input |-> << >>]

Init ==
    /\ ipc \in Backends
    /\ now = 0
    /\ waitStart = 0
    /\ loop = "running"
    /\ rebalance_debounce = NewRebalanceDebounce(DEFAULT_REBALANCE_DEBOUNCE)
    /\ focus_debounce = NewFocusSwitchDebounce(DEFAULT_FOCUS_SWITCH_DEBOUNCE)
    /\ event = NoEvent
    /\ result = "Ok(false)"
    /\ calls = << >>
    /\ hist = InitHist
    /\ op = NoOp
    /\ channel = [queue |-> << >>, connected |-> TRUE, timed_out |-> FALSE]

(***************************************************************************)
(* The daemon loop (src/src/cli.rs, Command::Daemon): read an event, hand  *)
(* it to its handler, `?` on the handler's Result, break when the stream   *)
(* is closed.                                                              *)
(***************************************************************************)
\* lines arrive up to here, so that the clock can still pass one rebalance
\* interval after the last of them
EventHorizon == MaxTime - DEFAULT_REBALANCE_DEBOUNCE

\* variant: the loop reads on after the stream is closed
LoopAfter_reads_on(e, res) ==
    IF res = "Err" THEN "failed" ELSE "running"

LoopAfter(e, res) ==
    IF res = "Err" THEN "failed"
    ELSE IF e.type = "Disconnected" THEN "stopped"
    ELSE "running"

\* one turn of the loop on the event next_event returned
Handle(e) ==
    /\ loop = "running"
    /\ \E o \in process_event(ipc, rebalance_debounce, focus_debounce, e) :
          /\ rebalance_debounce' = o.rb
          /\ focus_debounce' = o.fd
          /\ calls' = o.calls
          /\ result' = o.result
          /\ hist' = NextHist(hist, e, o)
          /\ loop' = LoopAfter(e, o.result)
    /\ event' = e
    /\ waitStart' = now
    /\ UNCHANGED << ipc, now, op >>

\* a turn of the loop that reads the socket: no channel is involved
Step(e) == Handle(e) /\ UNCHANGED channel

\* the clock advances
Tick ==
    /\ loop = "running"
    /\ now + Granularity <= MaxTime
    /\ now' = now + Granularity
    /\ UNCHANGED << ipc, waitStart, loop, rebalance_debounce, focus_debounce,
                    event, result, calls, hist, op, channel >>

\* variant: a line that is no event does not restart the wait
ReadLine_keeps_waiting(line) ==
    IF parse_socket2_event(line, now) = NoEvent
    THEN /\ loop = "running"
         /\ event' = NoEvent
         /\ result' = "Ok(false)"
         /\ calls' = << >>
         /\ UNCHANGED << ipc, now, waitStart, loop, rebalance_debounce,
                         focus_debounce, hist, op, channel >>
    ELSE Step(parse_socket2_event(line, now))

\* read_line returned a line: a line that is no event is passed over and
\* the loop reads on, any other goes to its handler
ReadLine(line) ==
    IF parse_socket2_event(line, now) = NoEvent
    THEN /\ loop = "running"
         /\ waitStart' = now
         /\ event' = NoEvent
         /\ result' = "Ok(false)"
         /\ calls' = << >>
         /\ UNCHANGED << ipc, now, loop, rebalance_debounce, focus_debounce,
                         hist, op, channel >>
    ELSE Step(parse_socket2_event(line, now))

\* next_event returns a monitor event: ReadLine of a line that is one, the
\* lines that give the same event taken as one
ReadMonitorLine ==
    /\ now <= EventHorizon
    /\ \E e \in { parse_socket2_event(line, now) : line \in SocketLines } :
          e.type = "Monitor" /\ Step(e)

\* next_event returns a focus event
ReadFocusLine ==
    /\ now <= EventHorizon
    /\ \E e \in { parse_socket2_event(line, now) : line \in SocketLines } :
          e.type = "Focus" /\ Step(e)

\* next_event reads an empty line or one that is no event and reads on
ReadIgnoredLine ==
    /\ now <= EventHorizon
    /\ \E line \in SocketLines :
          parse_socket2_event(line, now) = NoEvent /\ ReadLine(line)

\* a read waited the whole window: next_event returns Timeout
ReadTimedOut ==
    /\ now - waitStart >= ReadTimeout
    /\ Step(TimeoutEvent(now))

\* read_line returned 0: next_event returns Disconnected
StreamClosed == Step(DisconnectedEvent)

Next ==
    \/ Tick
    \/ ReadMonitorLine
    \/ ReadFocusLine
    \/ ReadIgnoredLine
    \/ ReadTimedOut
    \/ StreamClosed

Spec == Init /\ [][Next]_vars

\* the loop keeps reading and the clock keeps running
LiveSpec == Spec /\ WF_vars(Tick) /\ WF_vars(ReadTimedOut)

(***************************************************************************)
(* The native event source (src/src/daemon.rs, NativeEventSource): a       *)
(* listener thread whose callbacks send events into a channel, and the     *)
(* loop that receives them with a timeout.  The state the two threads can  *)
(* both reach is the channel and, were it handed to the listener, the two  *)
(* debounce records.                                                       *)
(***************************************************************************)
\* events waiting in the channel at most
MaxQueue == 2

\* the listener thread runs its callbacks up to here
ListenerHorizon == ReadTimeout

\* what the callbacks send at time `at`, one event of each shape: a monitor
\* event (added and removed are handled alike), a focus event with a
\* workspace id (workspace_id_from_native drops an id that is not positive)
\* and one with a window address (the callback returns on no window)
NativeEvents(at) ==
    { MonitorEvent("Added", at), FocusEvent(at, 1, ""),
      FocusEvent(at, None, "0x1") }

Shared(ch, rb, fd) ==
    [channel |-> ch, rebalance_debounce |-> rb, focus_debounce |-> fd]

\* variant: the monitor callbacks record the event in the debounce themselves
listener_send_and_record(shared, e) ==
    [shared EXCEPT
        !.channel.queue = Append(@, e),
        !.rebalance_debounce =
            IF e.type = "Monitor" THEN record_event(@, e.at).state ELSE @]

\* a callback of the listener thread: sender.send(event)
listener_send(shared, e) ==
    [shared EXCEPT !.channel.queue = Append(@, e)]

\* a callback runs while the receiver is alive
ListenerSends ==
    /\ loop = "running"
    /\ channel.connected
    /\ Len(channel.queue) < MaxQueue
    /\ now <= ListenerHorizon
    /\ \E e \in NativeEvents(now) :
          LET after == listener_send(Shared(channel, rebalance_debounce,
                                            focus_debounce), e)
          IN /\ channel' = after.channel
             /\ rebalance_debounce' = after.rebalance_debounce
             /\ focus_debounce' = after.focus_debounce
    /\ UNCHANGED << ipc, now, waitStart, loop, event, result, calls, hist, op >>

\* instance_start_listener returned: Disconnected is sent and the senders
\* are dropped with the thread
ListenerEnds ==
    /\ loop = "running"
    /\ channel.connected
    /\ channel' = [channel EXCEPT !.queue = Append(@, DisconnectedEvent),
                                  !.connected = FALSE]
    /\ UNCHANGED << ipc, now, waitStart, loop, rebalance_debounce,
                    focus_debounce, event, result, calls, hist, op >>

\* the thread ended by unwinding (a panic under instance_start_listener):
\* the senders are dropped with its closure and Disconnected was never sent
ListenerAborts ==
    /\ loop = "running"
    /\ channel.connected
    /\ channel' = [channel EXCEPT !.connected = FALSE]
    /\ UNCHANGED << ipc, now, waitStart, loop, rebalance_debounce,
                    focus_debounce, event, result, calls, hist, op >>

\* recv_timeout returns the oldest event of the channel
LoopReceives ==
    /\ ~channel.timed_out
    /\ channel.queue # << >>
    /\ Handle(Head(channel.queue))
    /\ channel' = [channel EXCEPT !.queue = Tail(@)]

\* recv_timeout found the channel empty for the whole timeout and returns
\* Err(Timeout); the Timeout event is not built yet
LoopTimesOut ==
    /\ loop = "running"
    /\ ~channel.timed_out
    /\ channel.queue = << >>
    /\ channel.connected
    /\ now - waitStart >= ReadTimeout
    /\ channel' = [channel EXCEPT !.timed_out = TRUE]
    /\ UNCHANGED << ipc, now, waitStart, loop, rebalance_debounce,
                    focus_debounce, event, result, calls, hist, op >>

\* the Err(Timeout) arm: Timeout { at: Instant::now() } goes to the handler;
\* the listener thread and the clock may have run since recv_timeout returned
LoopStampsTimeout ==
    /\ channel.timed_out
    /\ Handle(TimeoutEvent(now))
    /\ channel' = [channel EXCEPT !.timed_out = FALSE]

\* recv_timeout found the channel empty and every sender dropped
LoopFindsClosed ==
    /\ ~channel.timed_out
    /\ channel.queue = << >>
    /\ ~channel.connected
    /\ Handle(DisconnectedEvent)
    /\ UNCHANGED channel

NativeNext ==
    \/ Tick
    \/ ListenerSends
    \/ ListenerEnds
    \/ ListenerAborts
    \/ LoopReceives
    \/ LoopTimesOut
    \/ LoopStampsTimeout
    \/ LoopFindsClosed

NativeSpec == Init /\ [][NativeNext]_vars

(***************************************************************************)
(* The rebalance debounce on its own: record_event and flush are called    *)
(* in any order as the clock advances, and each call is also made on the   *)
(* debounce as it is specified, which records last_event only when an      *)
(* event is deferred.  `hist` holds the state of the specified one, and    *)
(* `result` what the call returned on each.                                *)
(***************************************************************************)
Decisions(code, specified) == [code |-> code, specified |-> specified]

DebounceInit ==
    /\ ipc \in Backends
    /\ now = 0
    /\ waitStart = 0
    /\ loop = "running"
    /\ rebalance_debounce = NewRebalanceDebounce(DEFAULT_REBALANCE_DEBOUNCE)
    /\ focus_debounce = NewFocusSwitchDebounce(DEFAULT_FOCUS_SWITCH_DEBOUNCE)
    /\ event = NoEvent
    /\ result = Decisions(FALSE, FALSE)
    /\ calls = << >>
    /\ hist = [specified |-> NewRebalanceDebounce(DEFAULT_REBALANCE_DEBOUNCE)]
    /\ op = NoOp
    /\ channel = [queue |-> << >>, connected |-> TRUE, timed_out |-> FALSE]

\* debounce.record_event(now), on both
RecordEvent ==
    /\ LET c == record_event(rebalance_debounce, now)
           sp == record_event_as_specified(hist.specified, now)
       IN /\ rebalance_debounce' = c.state
          /\ hist' = [specified |-> sp.state]
          /\ result' = Decisions(c.ret, sp.ret)
    /\ op' = [name |-> "record_event", input |-> << now >>]
    /\ UNCHANGED << ipc, now, waitStart, loop, focus_debounce, event, calls,
                    channel >>

\* debounce.flush(now), on both
Flush ==
    /\ LET c == flush(rebalance_debounce, now)
           sp == flush(hist.specified, now)
       IN /\ rebalance_debounce' = c.state
          /\ hist' = [specified |-> sp.state]
          /\ result' = Decisions(c.ret, sp.ret)
    /\ op' = [name |-> "flush", input |-> << now >>]
    /\ UNCHANGED << ipc, now, waitStart, loop, focus_debounce, event, calls,
                    channel >>

DebounceNext ==
    \/ Tick
    \/ RecordEvent
    \/ Flush

DebounceSpec == DebounceInit /\ [][DebounceNext]_vars

(***************************************************************************)
(* The one-shot commands (src/src/cli.rs, run): each invocation is one     *)
(* process that runs one command to its end and exits.  op records the    *)
(* command and the inputs it met, calls and result what it did with them.  *)
(***************************************************************************)
StrApp == << "A", "p", "p" >>
StrAppLoose == << " ", "a", "p", "p", " " >>
StrTerm == << "T", "e", "r", "m" >>
StrTitle == << "t" >>
StrSignature == << "s", "i", "g" >>

WorkspaceName(w) == SomeStr(<< ToString(w) >>)
SpecialName == SomeStr(SpecialPrefix \o << "m" >>)

\* the clients a session file records
SnapshotClients ==
    { SnapshotClient("0x1", NoneStr, NoneStr, NoneStr, SomeStr(StrApp),
                     2, WorkspaceName(2), 2),
      SnapshotClient("0x2", SomeStr(StrTerm), NoneStr, NoneStr,
                     SomeStr(StrAppLoose), PairedOffset + 1, SpecialName,
                     PairedOffset + 1),
      SnapshotClient("0x2", SomeStr(StrTerm), SomeStr(StrTitle), NoneStr,
                     NoneStr, 1, WorkspaceName(1), 1),
      SnapshotClient("0x1", NoneStr, NoneStr, NoneStr, SomeStr(StrApp),
                     1, NoneStr, 1) }

\* the clients the window manager reports
LiveClients ==
    { ClientInfo("0x1", 1, WorkspaceName(1), NoneStr, NoneStr, NoneStr,
                 SomeStr(StrApp)),
      ClientInfo("0x2", PairedOffset + 1, WorkspaceName(PairedOffset + 1),
                 SomeStr(StrTerm), NoneStr, NoneStr, SomeStr(StrApp)),
      ClientInfo("0x2", PairedOffset + 2, WorkspaceName(PairedOffset + 2),
                 SomeStr(StrTerm), SomeStr(StrTitle), NoneStr, NoneStr),
      ClientInfo("0x1", PairedOffset + 1, NoneStr, NoneStr, NoneStr, NoneStr,
                 NoneStr),
      ClientInfo("0x2", PairedOffset + 1, SpecialName, NoneStr, NoneStr,
                 NoneStr, NoneStr) }

ListsOf(S) == UNION { [1..k -> S] : k \in 0..MaxClients }

\* replies of hyprctl.clients() to a command
ClientsReplies ==
    { [ok |-> FALSE, clients |-> << >>] }
    \cup { [ok |-> TRUE, clients |-> l] : l \in ListsOf(LiveClients) }

\* the runtime signature of the snapshot and of the running instance
Signatures ==
    { [snapshot |-> SomeStr(StrSignature), current |-> SomeStr(StrSignature)],
      [snapshot |-> SomeStr(StrSignature), current |-> NoneStr],
      [snapshot |-> NoneStr, current |-> SomeStr(StrSignature)] }

\* the version field of a session file: the one save writes, and a later one
Versions == {SESSION_VERSION, SESSION_VERSION + 1}

SessionFiles(signature) ==
    { SessionFile("unreadable", << >>), SessionFile("malformed", << >>) }
    \cup { SessionFile("snapshot", SessionSnapshot(v, signature, l))
           : v \in Versions, l \in ListsOf(SnapshotClients) }

Ran(name, input, outcomes) ==
    /\ \E o \in outcomes : calls' = o.calls /\ result' = o.result
    /\ op' = [name |-> name, input |-> input]
    /\ UNCHANGED ipc
    /\ UNCHANGED daemonVars

\* the process has not run its command yet
Fresh == op = NoOp

RebalanceAll == Fresh /\ Ran("rebalance_all", << >>, rebalance_all(ipc))

PairedSwitch ==
    /\ Fresh
    /\ \E active \in ActiveWorkspaceReplies, workspace \in 1..MaxWorkspace :
          Ran("paired_switch", [active |-> active, workspace |-> workspace],
              paired_switch(ipc, active, workspace))

PairedCycle ==
    /\ Fresh
    /\ \E active \in ActiveWorkspaceReplies, direction \in CycleDirections,
          wrap \in BOOLEAN :
          Ran("paired_cycle",
              [active |-> active, direction |-> direction, wrap |-> wrap],
              paired_cycle(ipc, active, direction, wrap))

PairedMoveWindow ==
    /\ Fresh
    /\ \E active \in ActiveWorkspaceReplies, workspace \in 1..MaxWorkspace :
          Ran("paired_move_window",
              [active |-> active, workspace |-> workspace],
              paired_move_window(ipc, active, workspace))

MigrateWindows ==
    /\ Fresh
    /\ \E reply \in ClientsReplies :
          Ran("migrate_windows", [reply |-> reply],
              migrate_windows(ipc, reply))

RestoreSession ==
    /\ Fresh
    /\ \E s \in Signatures, mode \in RestoreModes, reply \in ClientsReplies :
          \E file \in SessionFiles(s.snapshot) :
              Ran("restore_session",
                  [file |-> file, reply |-> reply, mode |-> mode,
                   signature |-> s.current],
                  restore_session(ipc, file, reply, mode, s.current))

CmdNext ==
    \/ RebalanceAll
    \/ PairedSwitch
    \/ PairedCycle
    \/ PairedMoveWindow
    \/ MigrateWindows
    \/ RestoreSession

CmdSpec == Init /\ [][CmdNext]_vars

(***************************************************************************)
(* The builders and the other pure functions, called on their own: op      *)
(* records the function and its arguments, result the value it returned.   *)
(***************************************************************************)
\* the offsets a function is called with
Offsets == 1..(PairedOffset + 1)

Monitors == {Primary, Secondary}

Returned(name, input, value) ==
    /\ op' = [name |-> name, input |-> input]
    /\ result' = value
    /\ UNCHANGED << ipc, calls >>
    /\ UNCHANGED daemonVars

BuildPairedSwitchBatch ==
    /\ Fresh
    /\ \E workspace \in 1..MaxWorkspace, offset \in Offsets :
          Returned("paired_switch_batch",
                   [workspace |-> workspace, offset |-> offset],
                   paired_switch_batch(Primary, Secondary, workspace, offset))

BuildPairedSwitchBatchWithFocus ==
    /\ Fresh
    /\ \E workspace \in 1..MaxWorkspace, offset \in Offsets,
          focus_monitor \in Monitors :
          Returned("paired_switch_batch_with_focus",
                   [workspace |-> workspace, offset |-> offset,
                    focus_monitor |-> focus_monitor],
                   paired_switch_batch_with_focus(Primary, Secondary, workspace,
                                                  offset, focus_monitor))

BuildRebalanceBatch ==
    /\ Fresh
    /\ \E offset \in Offsets :
          Returned("rebalance_batch", [offset |-> offset],
                   rebalance_batch(Primary, Secondary, offset))

\* a runtime signature: absent, that of this instance, that of another
StrOtherSignature == << "o", "l", "d" >>
SignatureValues == {NoneStr, SomeStr(StrSignature), SomeStr(StrOtherSignature)}

ResolveRestoreMode ==
    /\ Fresh
    /\ \E mode \in RestoreModes, snapshot_signature \in SignatureValues,
          current_signature \in SignatureValues :
          Returned("resolve_restore_mode",
                   [mode |-> mode, snapshot_signature |-> snapshot_signature,
                    current_signature |-> current_signature],
                   resolve_restore_mode(mode, snapshot_signature,
                                        current_signature))

BuildRestoreBatch ==
    /\ Fresh
    /\ \E mode \in RestoreModes, snapshot_signature \in SignatureValues,
          current_signature \in SignatureValues :
          \E clients \in ListsOf(SnapshotClients),
             current_clients \in ListsOf(LiveClients) :
              Returned("restore_batch",
                       [snapshot |-> SessionSnapshot(SESSION_VERSION,
                                                     snapshot_signature, clients),
                        mode |-> mode,
                        current_signature |-> current_signature,
                        current_clients |-> current_clients],
                       restore_batch(SessionSnapshot(SESSION_VERSION,
                                                     snapshot_signature, clients),
                                     mode, current_signature, current_clients,
                                     PairedOffset))

\* one turn of the first loop of restore_cold_session: a live client meets
\* the snapshot clients, some of them used by the clients before it
MatchOneClient ==
    /\ Fresh
    /\ \E clients \in ListsOf(SnapshotClients), client \in LiveClients :
          \E used_snapshot \in SUBSET (1..Len(clients)) :
              Returned("match_client",
                       [snapshot |-> SessionSnapshot(SESSION_VERSION, NoneStr,
                                                     clients),
                        client |-> client, used_snapshot |-> used_snapshot],
                       MatchClient([batch |-> << >>,
                                    used_snapshot |-> used_snapshot,
                                    matched_addresses |-> {}],
                                   SessionSnapshot(SESSION_VERSION, NoneStr,
                                                   clients),
                                   client))

\* the configuration files a user can write
MonitorNames == {NoneName, "", Primary, Secondary}
ConfigNumbers == {None} \cup (0..PairedOffset)

LoadConfig ==
    /\ Fresh
    /\ \E primary_monitor \in MonitorNames, secondary_monitor \in MonitorNames,
          paired_offset \in ConfigNumbers, workspace_count \in ConfigNumbers :
          Returned("from_json",
                   RawConfig(primary_monitor, secondary_monitor, paired_offset,
                             workspace_count),
                   from_json(RawConfig(primary_monitor, secondary_monitor,
                                       paired_offset, workspace_count)))

\* workspace ids over the range of u32: the small ones and a large one
WorkspaceIds == (0..MaxWorkspace) \cup {MaxU32Half}

NormalizeWorkspace ==
    /\ Fresh
    /\ \E id \in WorkspaceIds, offset \in 0..(PairedOffset + 1) :
          \E outcome \in normalize_workspace_u32(id, offset) :
              Returned("normalize_workspace", [id |-> id, offset |-> offset],
                       outcome)

CycleTarget ==
    /\ Fresh
    /\ \E base \in 1..MaxWorkspace, offset \in Offsets,
          direction \in CycleDirections, wrap \in BOOLEAN :
          Returned("cycle_target",
                   [base |-> base, offset |-> offset, direction |-> direction,
                    wrap |-> wrap],
                   cycle_target(base, offset, direction, wrap))

\* the live clients in the opposite order
Reversed(clients) ==
    [i \in 1..Len(clients) |-> clients[Len(clients) + 1 - i]]

\* restore_cold_session on a list of live clients and on the same clients
\* reported in the opposite order
RestoreColdBothOrders ==
    /\ Fresh
    /\ \E clients \in ListsOf(SnapshotClients),
          current_clients \in ListsOf(LiveClients) :
          Returned("restore_cold_orders",
                   [snapshot |-> SessionSnapshot(SESSION_VERSION, NoneStr,
                                                 clients),
                    current_clients |-> current_clients],
                   [given |-> restore_cold_session(
                                  SessionSnapshot(SESSION_VERSION, NoneStr,
                                                  clients),
                                  current_clients, PairedOffset),
                    reversed |-> restore_cold_session(
                                  SessionSnapshot(SESSION_VERSION, NoneStr,
                                                  clients),
                                  Reversed(current_clients), PairedOffset)])

\* what the first loop of restore_cold_session holds after each live client
ColdMatchSteps(snapshot, current_clients) ==
    [i \in 0..Len(current_clients) |->
        ColdMatches(snapshot, SubSeq(current_clients, 1, i))]

\* restore_cold_session, with the state of its first loop after every turn
MatchColdClients ==
    /\ Fresh
    /\ \E clients \in ListsOf(SnapshotClients),
          current_clients \in ListsOf(LiveClients) :
          Returned("restore_cold_matching",
                   [snapshot |-> SessionSnapshot(SESSION_VERSION, NoneStr,
                                                 clients),
                    current_clients |-> current_clients],
                   [steps |-> ColdMatchSteps(
                                  SessionSnapshot(SESSION_VERSION, NoneStr,
                                                  clients),
                                  current_clients),
                    batch |-> restore_cold_session(
                                  SessionSnapshot(SESSION_VERSION, NoneStr,
                                                  clients),
                                  current_clients, PairedOffset)])

\* the workspace a move targets: the one of that id, or for a special
\* workspace the one the snapshot recorded under that name
TargetWorkspace(snapshot, move) ==
    IF move.name = << >>
    THEN [id |-> move.workspace, name |-> WorkspaceName(move.workspace)]
    ELSE LET recorded == { i \in 1..Len(snapshot.clients) :
                             snapshot.clients[i].workspace_name
                                 = SomeStr(move.name) }
         IN [id |-> snapshot.clients[CHOOSE i \in recorded : TRUE].workspace_id,
             name |-> SomeStr(move.name)]

\* the live clients once the window manager has carried out the moves of
\* the batch, in order
ApplyMoves(snapshot, batch, current_clients) ==
    LET Applied[k \in 0..Len(batch)] ==
            IF k = 0 THEN current_clients
            ELSE [i \in 1..Len(current_clients) |->
                    IF Applied[k - 1][i].address = batch[k].address
                    THEN [Applied[k - 1][i] EXCEPT
                            !.workspace = TargetWorkspace(snapshot, batch[k])]
                    ELSE Applied[k - 1][i]]
    IN Applied[Len(batch)]

\* restore_batch, and restore_batch again on the live clients its moves left
RestoreTwice ==
    /\ Fresh
    /\ \E mode \in RestoreModes, snapshot_signature \in SignatureValues,
          current_signature \in SignatureValues :
          \E clients \in ListsOf(SnapshotClients),
             current_clients \in ListsOf(LiveClients) :
              LET snapshot == SessionSnapshot(SESSION_VERSION,
                                              snapshot_signature, clients)
                  first == restore_batch(snapshot, mode, current_signature,
                                         current_clients, PairedOffset)
                  moved == ApplyMoves(snapshot, first, current_clients)
              IN Returned("restore_twice",
                          [snapshot |-> snapshot, mode |-> mode,
                           current_signature |-> current_signature,
                           current_clients |-> current_clients],
                          [first |-> first, moved |-> moved,
                           second |-> restore_batch(snapshot, mode,
                                          current_signature, moved,
                                          PairedOffset)])

FnNext ==
    \/ BuildPairedSwitchBatch
    \/ BuildPairedSwitchBatchWithFocus
    \/ BuildRebalanceBatch
    \/ ResolveRestoreMode
    \/ BuildRestoreBatch
    \/ MatchOneClient
    \/ RestoreColdBothOrders
    \/ MatchColdClients
    \/ RestoreTwice
    \/ LoadConfig
    \/ NormalizeWorkspace
    \/ CycleTarget

FnSpec == Init /\ [][FnNext]_vars

(***************************************************************************)
(* Vocabulary of the properties.  In an action formula the unprimed        *)
(* variables are the state the handler started from and the primed ones    *)
(* what it left.                                                           *)
(***************************************************************************)
\* the step hands an event of this type to its handler
Handled(type) == now' = now /\ event'.type = type

\* the rebalance batch of the configuration
TheRebalanceBatch == rebalance_batch(Primary, Secondary, PairedOffset)

\* the calls are exactly one batch call with these commands
OneBatch(cs, cmds) == Len(cs) = 1 /\ cs[1].kind = "batch" /\ cs[1].cmds = cmds

\* the run-now condition of the rebalance debounce, at time t
IntervalElapsed(d, t) ==
    d.last_rebalance = None \/ t - d.last_rebalance >= DEFAULT_REBALANCE_DEBOUNCE

\* the burst has been quiet for the interval, at time t
QuietElapsed(d, t) ==
    d.last_event # None /\ t - d.last_event >= DEFAULT_REBALANCE_DEBOUNCE

\* C1: a monitor event issues exactly one rebalance batch exactly when no
\* rebalance ran before or minInterval has passed since the last one;
\* otherwise it issues nothing and is marked pending.  The first monitor
\* event of a fresh debounce therefore always runs.
C1_RecordEventDecision ==
    [][ Handled("Monitor") =>
          /\ IF IntervalElapsed(rebalance_debounce, event'.at)
             THEN OneBatch(calls', TheRebalanceBatch)
             ELSE calls' = << >> /\ rebalance_debounce'.pending
          /\ hist.lastMon = "none" => OneBatch(calls', TheRebalanceBatch) ]_vars

\* a second monitor event inside minInterval was deferred and marked pending
C1_Witness ==
    /\ event.type = "Monitor"
    /\ result = "Ok(false)"
    /\ calls = << >>
    /\ rebalance_debounce.pending
    /\ hist.lastGap # None
    /\ hist.lastGap < DEFAULT_REBALANCE_DEBOUNCE

C3_PendingEventuallyFlushed ==
    (loop = "running" /\ rebalance_debounce.pending)
        ~> (loop # "running" \/ (~rebalance_debounce.pending /\ calls # << >>))

\* a Timeout flushed the deferred rebalance
C3_Witness ==
    /\ event.type = "Timeout"
    /\ calls # << >>
    /\ ~rebalance_debounce.pending
    /\ hist.lastMon = "deferred"
    /\ hist.flushed

\* C4: after a deferred monitor event the first flush for which both the
\* quiet period and the interval have elapsed issues exactly one batch,
\* clears pending and sets lastRebalance; a later flush with no monitor
\* event in between issues nothing.
C4_FlushRunsOnce ==
    [][ Handled("Timeout") =>
          /\ ( /\ hist.lastMon = "deferred"
               /\ ~hist.flushed
               /\ QuietElapsed(rebalance_debounce, event'.at)
               /\ IntervalElapsed(rebalance_debounce, event'.at) )
             => /\ OneBatch(calls', TheRebalanceBatch)
                /\ ~rebalance_debounce'.pending
                /\ rebalance_debounce'.last_rebalance = event'.at
          /\ hist.flushed => calls' = << >> /\ hist'.flushed ]_vars

\* a flush after the one that ran issued nothing
C4_Witness ==
    /\ event.type = "Timeout"
    /\ hist.flushed
    /\ calls = << >>
    /\ rebalance_debounce.last_rebalance # None
    /\ event.at - rebalance_debounce.last_rebalance >= DEFAULT_REBALANCE_DEBOUNCE

\* C5: a flush while nothing is pending, or while the quiet period has not
\* elapsed, returns false, issues nothing and leaves the debounce state as
\* it was.
C5_FlushNoOp ==
    [][ ( /\ Handled("Timeout")
          /\ \/ ~rebalance_debounce.pending
             \/ event'.at - rebalance_debounce.last_event
                    < DEFAULT_REBALANCE_DEBOUNCE )
        => /\ result' = "Ok(false)"
           /\ calls' = << >>
           /\ rebalance_debounce' = rebalance_debounce ]_vars

\* a flush found a pending rebalance whose quiet period had not elapsed,
\* although the interval since the last rebalance had
C5_Witness ==
    /\ event.type = "Timeout"
    /\ rebalance_debounce.pending
    /\ event.at - rebalance_debounce.last_event < DEFAULT_REBALANCE_DEBOUNCE
    /\ event.at - rebalance_debounce.last_rebalance >= DEFAULT_REBALANCE_DEBOUNCE
    /\ calls = << >>

\* the slot a workspace id is paired under
SlotOf(w) == normalize_workspace(w, PairedOffset)

\* the step handles a focus event that names a workspace by a positive id
HandledFocusId == Handled("Focus") /\ event'.workspace_id > 0

\* C6 as claimed: once a switch was accepted for slot S, every later focus
\* event for S less than minInterval after that switch issues no batch.
C6_NoRepeatEver ==
    [][ ( /\ HandledFocusId
          /\ hist.acceptedAt[SlotOf(event'.workspace_id)] # None
          /\ event'.at - hist.acceptedAt[SlotOf(event'.workspace_id)]
                < DEFAULT_FOCUS_SWITCH_DEBOUNCE )
        => calls' = << >> ]_vars

\* C6 as amended: a focus event for slot S that arrives less than
\* minInterval after an accepted switch to S issues no batch when no switch
\* to another slot was accepted in between (S is the slot accepted last).
C6_NoRepeatOfLast ==
    [][ ( /\ HandledFocusId
          /\ hist.lastSlot = SlotOf(event'.workspace_id)
          /\ event'.at - hist.acceptedAt[SlotOf(event'.workspace_id)]
                < DEFAULT_FOCUS_SWITCH_DEBOUNCE )
        => /\ calls' = << >>
           /\ result' = "Ok(false)"
           /\ focus_debounce' = focus_debounce ]_vars

\* a focus event for the paired id of the slot accepted last was rejected
C6_Witness ==
    /\ event.type = "Focus"
    /\ event.workspace_id > PairedOffset
    /\ hist.lastSlot = SlotOf(event.workspace_id)
    /\ event.at - hist.acceptedAt[hist.lastSlot] < DEFAULT_FOCUS_SWITCH_DEBOUNCE
    /\ calls = << >>
    /\ result = "Ok(false)"

\* C7 as claimed: a focus event naming workspace V right after an accepted
\* one naming W, with V # W and inside minInterval, issues a batch as well.
C7_DifferentIdAllowed ==
    [][ ( /\ event.type = "Focus" /\ event.workspace_id > 0 /\ calls # << >>
          /\ HandledFocusId
          /\ event'.workspace_id # event.workspace_id
          /\ event'.at - event.at < DEFAULT_FOCUS_SWITCH_DEBOUNCE )
        => calls' # << >> ]_vars

\* C7 as amended: it does when V is paired under another slot than W; the
\* batch is the paired switch to V.
C7_DifferentSlotAllowed ==
    [][ ( /\ event.type = "Focus" /\ event.workspace_id > 0 /\ calls # << >>
          /\ HandledFocusId
          /\ SlotOf(event'.workspace_id) # SlotOf(event.workspace_id)
          /\ event'.at - event.at < DEFAULT_FOCUS_SWITCH_DEBOUNCE )
        => OneBatch(calls', paired_switch_batch(Primary, Secondary,
                                event'.workspace_id, PairedOffset)) ]_vars

\* switches to two different slots were accepted inside one interval
C7_Witness ==
    /\ event.type = "Focus"
    /\ event.workspace_id > 0
    /\ calls # << >>
    /\ \E s \in Slots :
          /\ s # SlotOf(event.workspace_id)
          /\ hist.acceptedAt[s] # None
          /\ event.at - hist.acceptedAt[s] < DEFAULT_FOCUS_SWITCH_DEBOUNCE

\* C8 as claimed: after a rebalance or paired-switch batch that failed, the
\* daemon loop is still running.
C8_LoopSurvivesFailedBatch ==
    (event.type \in {"Monitor", "Timeout", "Focus"}
     /\ calls # << >> /\ ~calls[Len(calls)].ok)
        => loop = "running"

\* the commands of a call are all the directives of one batch, or the one
\* directive of a single dispatch
IsBatchCall(c) == c.kind = "batch"
IsDispatchCall(c) == c.kind = "dispatch" /\ Len(c.cmds) = 1

\* C9 as claimed: every one-shot operation sends its commands in one single
\* batch call, so that an operation that fails has had no call accepted
\* (whether one batch call is applied as a unit is C10).
C9_OneBatchPerOperation ==
    op.name # "none" =>
        /\ Len(calls) <= 1
        /\ \A i \in 1..Len(calls) : IsBatchCall(calls[i])
        /\ result = "Err" => \A i \in 1..Len(calls) : ~calls[i].ok

\* C9 amended: rebalance, paired switch, cycle and restore send their
\* commands in one single batch call (none when the query before it fails
\* or restore has nothing to correct); move-window sends the move as one
\* single dispatch and then, if that was accepted, the paired switch as one
\* batch; migration sends one single dispatch per window to move and stops
\* at the first one refused.
C9_CallsPerOperation ==
    /\ op.name = "rebalance_all" =>
           Len(calls) = 1 /\ IsBatchCall(calls[1])
    /\ op.name \in {"paired_switch", "paired_cycle"} =>
           /\ Len(calls) = (IF op.input.active.ok THEN 1 ELSE 0)
           /\ \A i \in 1..Len(calls) : IsBatchCall(calls[i])
    /\ op.name = "restore_session" =>
           /\ Len(calls) <= 1
           /\ \A i \in 1..Len(calls) : IsBatchCall(calls[i])
           /\ (op.input.file.kind # "snapshot" \/ ~op.input.reply.ok)
                  => calls = << >>
    /\ op.name = "paired_move_window" =>
           /\ Len(calls) = (IF ~op.input.active.ok THEN 0
                            ELSE IF calls[1].ok THEN 2 ELSE 1)
           /\ Len(calls) >= 1 =>
                  /\ IsDispatchCall(calls[1])
                  /\ calls[1].cmds[1].dispatcher = "movetoworkspacesilent"
           /\ Len(calls) = 2 =>
                  /\ IsBatchCall(calls[2])
                  /\ \A j \in 1..Len(calls[2].cmds) :
                         calls[2].cmds[j].dispatcher # "movetoworkspacesilent"
    /\ op.name = "migrate_windows" =>
           /\ \A i \in 1..Len(calls) :
                  /\ IsDispatchCall(calls[i])
                  /\ calls[i].cmds[1].dispatcher = "movetoworkspacesilent"
                  /\ i < Len(calls) => calls[i].ok
           /\ Len(calls) <= Len(op.input.reply.clients)
           /\ result = (IF ~op.input.reply.ok
                           \/ (\E i \in 1..Len(calls) : ~calls[i].ok)
                        THEN "Err" ELSE "Ok")

\* a move-window whose move was accepted and whose paired switch failed
C9_Witness ==
    /\ op.name = "paired_move_window"
    /\ Len(calls) = 2
    /\ calls[1].ok
    /\ ~calls[2].ok

\* C10 as claimed: a batch call that returned Ok has applied all of its
\* directives, one that returned an error none of them.
C10_BatchAllOrNothing ==
    \A i \in 1..Len(calls) :
        calls[i].kind = "batch" =>
            IF calls[i].ok THEN calls[i].applied = Len(calls[i].cmds)
            ELSE calls[i].applied = 0

\* a paired-switch batch has been built, and the monitor it was to leave
\* focused (paired_switch_batch has no choice: the primary one)
BuiltPairedSwitch ==
    op.name \in {"paired_switch_batch", "paired_switch_batch_with_focus"}
KeptFocus ==
    IF op.name = "paired_switch_batch" THEN Primary ELSE op.input.focus_monitor
BuiltSlot == normalize_workspace(op.input.workspace, op.input.offset)

LastFocusedMonitor(cmds) ==
    LET focus == { j \in 1..Len(cmds) : cmds[j].dispatcher = "focusmonitor" }
    IN IF focus = {} THEN ""
       ELSE cmds[CHOOSE j \in focus : \A k \in focus : k <= j].monitor

\* C12: the batch of a paired switch, cycle or move-window command focuses
\* last the monitor that hosts the active workspace at command time: the
\* secondary one iff the active workspace id is above the offset.
C12_FocusStaysOnActiveMonitor ==
    op.name \in {"paired_switch", "paired_cycle", "paired_move_window"} =>
        \A i \in 1..Len(calls) :
            IsBatchCall(calls[i]) =>
                LastFocusedMonitor(calls[i].cmds) =
                    (IF op.input.active.id > PairedOffset
                     THEN Secondary ELSE Primary)

\* a move-window started on the last workspace of the primary monitor, whose
\* batch leaves the focus there
C12_Witness ==
    /\ op.name = "paired_move_window"
    /\ op.input.active.id = PairedOffset
    /\ Len(calls) = 2
    /\ LastFocusedMonitor(calls[2].cmds) = Primary

\* the workspaces a batch moves to a monitor, in the order of the batch
MovedTo(cmds, monitor) ==
    LET Pick[i \in 0..Len(cmds)] ==
            IF i = 0 THEN << >>
            ELSE IF cmds[i].monitor = monitor
                 THEN Append(Pick[i - 1], cmds[i].workspace)
                 ELSE Pick[i - 1]
    IN Pick[Len(cmds)]

\* C13: rebalance_batch yields exactly 2 * offset moveworkspacetomonitor
\* directives: workspaces 1..offset to the primary monitor in ascending
\* order, then offset + 1..2 * offset to the secondary monitor in ascending
\* order, each workspace exactly once.
C13_RebalanceBatchShape ==
    op.name = "rebalance_batch" =>
        /\ Len(result) = 2 * op.input.offset
        /\ \A i \in 1..Len(result) :
               /\ result[i].dispatcher = "moveworkspacetomonitor"
               /\ result[i].monitor \in Monitors
               /\ i <= op.input.offset <=> result[i].monitor = Primary
        /\ MovedTo(result, Primary) = [w \in 1..op.input.offset |-> w]
        /\ MovedTo(result, Secondary) =
               [w \in 1..op.input.offset |-> op.input.offset + w]

\* the batch of the end-to-end scenario: offset 2, four moves
C13_Witness ==
    /\ op.name = "rebalance_batch"
    /\ op.input.offset = 2
    /\ MovedTo(result, Primary) = << 1, 2 >>
    /\ MovedTo(result, Secondary) = << 3, 4 >>

\* C14: when the stream closes the event source emits Disconnected;
\* processing it issues no command, returns no error and changes neither
\* debounce state, and the loop ends: nothing is read after it.
C14_DisconnectEndsLoop ==
    [][/\ (loop = "running" /\ event' = DisconnectedEvent) =>
              /\ calls' = << >>
              /\ result' = "Ok(false)"
              /\ rebalance_debounce' = rebalance_debounce
              /\ focus_debounce' = focus_debounce
              /\ loop' = "stopped"
       /\ loop = "stopped" => UNCHANGED vars]_vars

\* the stream closed while a rebalance was still deferred
C14_Witness ==
    /\ loop = "stopped"
    /\ event = DisconnectedEvent
    /\ rebalance_debounce.pending
    /\ focus_debounce.last_switch # None

\* the event names the classifier knows
RecognizedNames ==
    {"monitoradded", "monitoraddedv2", "monitorremoved", "monitorremovedv2",
     "workspacev2", "workspace", "focusedmonv2", "focusedmon", "activewindowv2"}

\* the payload holds the fields the name of the line requires
RequiredFieldsParse(line) ==
    IF line.name = "workspacev2"
    THEN Len(line.payload) >= 2 /\ line.payload[1].num # None
    ELSE IF line.name = "workspace"
    THEN Len(line.payload) = 1 /\ line.payload[1].num # None
    ELSE IF line.name \in {"focusedmonv2", "focusedmon"}
    THEN Len(line.payload) = 2 /\ line.payload[2].num # None
    ELSE IF line.name = "activewindowv2"
    THEN Len(line.payload) = 1 /\ line.payload[1].text # ""
    ELSE TRUE

Malformed(line) ==
    \/ ~line.sep
    \/ line.name \notin RecognizedNames
    \/ ~RequiredFieldsParse(line)

MalformedLines == { line \in SocketLines : Malformed(line) }

\* C15: a line with an unknown name, without ">>" or with a payload that
\* does not parse into the fields of its name is no event: reading it
\* issues no command, returns no error and leaves both debounce states
\* as they were.
C15_MalformedLineIsDropped ==
    [][\A line \in MalformedLines :
          ReadLine(line) =>
              /\ event' = NoEvent
              /\ calls' = << >>
              /\ result' # "Err"
              /\ loop' = "running"
              /\ rebalance_debounce' = rebalance_debounce
              /\ focus_debounce' = focus_debounce]_vars

\* a line was dropped while a rebalance was deferred and a switch recorded
C15_Witness ==
    /\ event = NoEvent
    /\ loop = "running"
    /\ rebalance_debounce.pending
    /\ focus_debounce.last_switch # None

\* C16 as claimed: a client list that cannot be read (unparseable JSON) when
\* an active-window event is resolved makes the event a no-op: no command,
\* no error handed to the daemon loop, the loop still running.
C16_QueryFailureIsNoOp ==
    (event.type = "Focus" /\ event.window_address # "" /\ calls = << >>) =>
        /\ result = "Ok(false)"
        /\ loop = "running"

\* C17 as claimed: restore rejects a session file whose version is not the
\* supported one: it returns an error and issues no command.
C17_RejectsOtherVersion ==
    (/\ op.name = "restore_session"
     /\ op.input.file.kind = "snapshot"
     /\ op.input.file.snapshot.version # SESSION_VERSION) =>
        /\ result = "Err"
        /\ calls = << >>

\* the mode a restore is to act in, in the words of the claim
ExpectedMode(mode, snapshot_signature, current_signature) ==
    IF mode # "Auto" THEN mode
    ELSE IF /\ snapshot_signature.some
            /\ current_signature.some
            /\ snapshot_signature.value = current_signature.value
         THEN "Same"
         ELSE "Cold"

\* C18: Auto resolves to Same exactly when the snapshot carries a signature
\* equal to the current one and to Cold in every other case; explicit Same
\* and Cold stay as given; restore_batch acts in the resolved mode, never in
\* Auto.
C18_AutoResolvesBySignature ==
    /\ op.name = "resolve_restore_mode" =>
           /\ result \in {"Same", "Cold"}
           /\ result = ExpectedMode(op.input.mode, op.input.snapshot_signature,
                                    op.input.current_signature)
    /\ op.name = "restore_batch" =>
           result =
               IF ExpectedMode(op.input.mode, op.input.snapshot.signature,
                               op.input.current_signature) = "Same"
               THEN restore_same_session(op.input.snapshot,
                                         op.input.current_clients)
               ELSE restore_cold_session(op.input.snapshot,
                                         op.input.current_clients, PairedOffset)

\* Auto with no signature on either side, where the two modes give
\* different batches: the cold one was built
C18_Witness ==
    /\ op.name = "restore_batch"
    /\ op.input.mode = "Auto"
    /\ ~op.input.snapshot.signature.some
    /\ ~op.input.current_signature.some
    /\ result = restore_cold_session(op.input.snapshot,
                                     op.input.current_clients, PairedOffset)
    /\ result # restore_same_session(op.input.snapshot,
                                     op.input.current_clients)

\* no two live clients share an address
DistinctAddresses(clients) ==
    \A i, j \in 1..Len(clients) :
        clients[i].address = clients[j].address => i = j

\* the snapshot client is live and not where the snapshot recorded it: by
\* name when the recorded workspace is special, by numeric id otherwise
Misplaced(client, current_clients) ==
    \E j \in 1..Len(current_clients) :
        /\ current_clients[j].address = client.address
        /\ IF is_special_workspace_name(client.workspace_name)
           THEN current_clients[j].workspace.name # client.workspace_name
           ELSE current_clients[j].workspace.id # client.workspace_id

\* the silent move of a client to the workspace the snapshot recorded
MoveToRecorded(client) ==
    IF is_special_workspace_name(client.workspace_name)
    THEN Directive("movetoworkspacesilent", 0, client.workspace_name.value,
                   "", client.address)
    ELSE Directive("movetoworkspacesilent", client.workspace_id, << >>,
                   "", client.address)

\* the misplaced clients of the snapshot, in snapshot order
MisplacedClients(clients, current_clients) ==
    SelectSeq(clients, LAMBDA client : Misplaced(client, current_clients))

\* C19: same-session restore emits, in snapshot order, exactly one silent
\* move to the recorded workspace for each snapshot client that is live
\* under the same address and misplaced, and no other move: none for a
\* client in place, none for a client present on one side only.
C19_SameSessionMovesMisplaced ==
    (/\ op.name = "restore_batch"
     /\ op.input.mode = "Same"
     /\ DistinctAddresses(op.input.current_clients)) =>
        LET moved == MisplacedClients(op.input.snapshot.clients,
                                      op.input.current_clients)
        IN /\ Len(result) = Len(moved)
           /\ \A i \in 1..Len(moved) : result[i] = MoveToRecorded(moved[i])

\* two snapshot clients, the first in place, the second recorded on a
\* special workspace and found elsewhere: one move, to the special name
C19_Witness ==
    /\ op.name = "restore_batch"
    /\ op.input.mode = "Same"
    /\ DistinctAddresses(op.input.current_clients)
    /\ Len(op.input.current_clients) = 2
    /\ Len(op.input.snapshot.clients) = 2
    /\ ~Misplaced(op.input.snapshot.clients[1], op.input.current_clients)
    /\ \E j \in 1..2 : op.input.current_clients[j].address =
                           op.input.snapshot.clients[1].address
    /\ Len(result) = 1
    /\ result[1].name = SpecialName.value

\* two values match: both present and equal without regard to case and to
\* surrounding blanks
SameValue(left, right) ==
    /\ left.some
    /\ right.some
    /\ normalize_value(left.value) = normalize_value(right.value)

\* the score of a snapshot candidate for a live client
CandidateScore(candidate, client) ==
    (IF SameValue(candidate.app_id, client.app_id) THEN 4 ELSE 0)
    + (IF SameValue(candidate.class, client.class) THEN 3 ELSE 0)
    + (IF SameValue(candidate.initial_class, client.initial_class) THEN 2 ELSE 0)
    + (IF SameValue(candidate.title, client.title) THEN 1 ELSE 0)

\* C20: in cold restore a live client is matched to a snapshot client only
\* if the score of that candidate (appId 4, class 3, initialClass 2,
\* title 1) is at least 4 and strictly greater than the score of every
\* other snapshot candidate not yet used.
C20_ColdMatchIsUnambiguous ==
    op.name = "match_client" =>
        LET candidates == op.input.snapshot.clients
            unused == (1..Len(candidates)) \ op.input.used_snapshot
            matched == result.used_snapshot \ op.input.used_snapshot
        IN /\ matched \subseteq unused
           /\ \A idx \in matched :
                  /\ matched = {idx}
                  /\ CandidateScore(candidates[idx], op.input.client) >= 4
                  /\ \A other \in unused \ {idx} :
                         CandidateScore(candidates[idx], op.input.client)
                             > CandidateScore(candidates[other], op.input.client)

\* the second candidate is matched with 7 against a first that scores 4
C20_Witness ==
    /\ op.name = "match_client"
    /\ Len(op.input.snapshot.clients) = 2
    /\ op.input.used_snapshot = {}
    /\ result.used_snapshot = {2}
    /\ CandidateScore(op.input.snapshot.clients[1], op.input.client) = 4
    /\ CandidateScore(op.input.snapshot.clients[2], op.input.client) = 7

\* the silent move of the window at an address to the workspace a snapshot
\* client was recorded on: by name when that is special, by id otherwise
RecordedMove(candidate, address) ==
    IF is_special_workspace_name(candidate.workspace_name)
    THEN Directive("movetoworkspacesilent", 0, candidate.workspace_name.value,
                   "", address)
    ELSE Directive("movetoworkspacesilent", candidate.workspace_id, << >>,
                   "", address)

\* the moves of a batch addressed to an address
MovesOf(cmds, address) ==
    { i \in 1..Len(cmds) : cmds[i].address = address }

TiedOnBest(candidates, unused, client) ==
    \E a, b \in unused :
        /\ a # b
        /\ CandidateScore(candidates[a], client) > 0
        /\ CandidateScore(candidates[a], client)
               = CandidateScore(candidates[b], client)
        /\ \A c \in unused :
               CandidateScore(candidates[c], client)
                   <= CandidateScore(candidates[a], client)

\* the first live client of a cold restore meets a tie
FirstClientTied ==
    /\ op.name = "restore_batch"
    /\ op.input.mode = "Cold"
    /\ DistinctAddresses(op.input.current_clients)
    /\ op.input.current_clients # << >>
    /\ TiedOnBest(op.input.snapshot.clients,
                  1..Len(op.input.snapshot.clients),
                  op.input.current_clients[1])

\* C22 as claimed: a live client for which two candidates tie on the best
\* score gets no move command in the batch, whatever workspace it is on.
C22_TieEmitsNoMove ==
    FirstClientTied =>
        MovesOf(result, op.input.current_clients[1].address) = {}

\* C22 amended: a tie leaves the client unmatched, with no move to a
\* recorded workspace; the only move the batch can hold for it is the one
\* to its own slot, present exactly when the client is on a workspace that
\* is not special and not its slot.
C22_TieLeavesClientUnmatched ==
    /\ op.name = "match_client" =>
           (TiedOnBest(op.input.snapshot.clients,
                       (1..Len(op.input.snapshot.clients))
                           \ op.input.used_snapshot,
                       op.input.client) =>
               /\ result.used_snapshot = op.input.used_snapshot
               /\ result.matched_addresses = {}
               /\ result.batch = << >>)
    /\ FirstClientTied =>
           LET client == op.input.current_clients[1]
               slot == normalize_workspace(client.workspace.id, PairedOffset)
           IN IF is_special_workspace_name(client.workspace.name)
                 \/ client.workspace.id = slot
              THEN MovesOf(result, client.address) = {}
              ELSE \E i \in 1..Len(result) :
                      /\ MovesOf(result, client.address) = {i}
                      /\ result[i] = Directive("movetoworkspacesilent", slot,
                                               << >>, "", client.address)

\* a tied client on a workspace of the secondary range: one move, to its slot
C22_Witness ==
    /\ FirstClientTied
    /\ op.input.current_clients[1].workspace.id > PairedOffset
    /\ ~is_special_workspace_name(op.input.current_clients[1].workspace.name)
    /\ Cardinality(MovesOf(result, op.input.current_clients[1].address)) = 1

\* a cold restore of live clients that each have an address of their own
ColdRestored ==
    /\ op.name = "restore_batch"
    /\ op.input.mode = "Cold"
    /\ DistinctAddresses(op.input.current_clients)

\* the live clients the matching loop left unmatched
Unmatched ==
    { j \in 1..Len(op.input.current_clients) :
        op.input.current_clients[j].address \notin
            ColdMatches(op.input.snapshot,
                        op.input.current_clients).matched_addresses }

\* C23: in cold restore every unmatched live client that is not on a special
\* workspace gets a silent move to normalize(id, offset) exactly when its
\* workspace id differs from that slot, so that it ends up in [1, offset];
\* an unmatched client on a special workspace is never moved.
C23_UnmatchedRenormalized ==
    ColdRestored =>
        \A j \in Unmatched :
            LET client == op.input.current_clients[j]
                slot == normalize_workspace(client.workspace.id, PairedOffset)
            IN IF is_special_workspace_name(client.workspace.name)
               THEN MovesOf(result, client.address) = {}
               ELSE /\ slot \in 1..PairedOffset
                    /\ IF client.workspace.id = slot
                       THEN MovesOf(result, client.address) = {}
                       ELSE \E i \in 1..Len(result) :
                               /\ MovesOf(result, client.address) = {i}
                               /\ result[i] =
                                      Directive("movetoworkspacesilent", slot,
                                                << >>, "", client.address)

\* two unmatched clients beyond the slots, one of them on a special
\* workspace: only the other one is moved
C23_Witness ==
    /\ ColdRestored
    /\ Unmatched = {1, 2}
    /\ \A j \in 1..2 : op.input.current_clients[j].workspace.id > PairedOffset
    /\ is_special_workspace_name(op.input.current_clients[1].workspace.name)
    /\ Len(result) = 1
    /\ result[1].address = op.input.current_clients[2].address

\* the set of the commands of a batch
CommandsOf(cmds) == { cmds[i] : i \in 1..Len(cmds) }

\* the two orders of the live clients gave different sets of moves
OrderChangedMoves ==
    /\ op.name = "restore_cold_orders"
    /\ DistinctAddresses(op.input.current_clients)
    /\ CommandsOf(result.given) # CommandsOf(result.reversed)

\* C24: the result of cold restore can depend on the order of the live
\* clients (there are inputs for which the reversed list gives another set
\* of moves), and it does so only when two live clients are both
\* acceptable matches (score of 4 or more) of one snapshot entry.
C24_OrderMattersForSharedCandidate ==
    OrderChangedMoves =>
        \E i, j \in 1..Len(op.input.current_clients) :
            /\ i # j
            /\ \E idx \in 1..Len(op.input.snapshot.clients) :
                   /\ CandidateScore(op.input.snapshot.clients[idx],
                                     op.input.current_clients[i]) >= 4
                   /\ CandidateScore(op.input.snapshot.clients[idx],
                                     op.input.current_clients[j]) >= 4

\* one snapshot entry, two live clients that both match it: whichever
\* comes first is moved to the recorded workspace
C24_Witness ==
    /\ OrderChangedMoves
    /\ Len(op.input.snapshot.clients) = 1
    /\ Len(op.input.current_clients) = 2
    /\ \E m \in CommandsOf(result.given) :
           /\ m.address = op.input.current_clients[1].address
           /\ m.workspace = op.input.snapshot.clients[1].workspace_id
    /\ \E m \in CommandsOf(result.reversed) :
           /\ m.address = op.input.current_clients[2].address
           /\ m.workspace = op.input.snapshot.clients[1].workspace_id

\* C25 as claimed: every configuration that loading produces has
\* paired_offset >= 1 and workspace_count >= 1, so that the pairing
\* functions are never given offset 0.
C25_LoadedOffsetPositive ==
    (op.name = "from_json" /\ result.ok) =>
        /\ result.paired_offset >= 1
        /\ result.workspace_count >= 1

\* C26 as claimed: for every u32 workspace id and every offset >= 1
\* normalize_workspace returns, without failing, a slot in [1, offset] that
\* it maps to itself; it fails for offset 0 only.
C26_NormalizeTotalForPositiveOffset ==
    op.name = "normalize_workspace" =>
        /\ result.panic <=> op.input.offset = 0
        /\ ~result.panic =>
               /\ result.value \in 1..op.input.offset
               /\ normalize_workspace_u32(result.value, op.input.offset)
                      = { ReturnedValue(result.value) }

\* cycle_target was applied to a slot of [1, offset]
CycledSlot(wrap) ==
    /\ op.name = "cycle_target"
    /\ op.input.wrap = wrap
    /\ op.input.base \in 1..op.input.offset

Opposite(direction) == IF direction = "Next" THEN "Prev" ELSE "Next"

\* C27: with wrap, cycle_target in either direction is a bijection on
\* [1, offset] (into the range, no two slots with the same target, every
\* slot a target) and the two directions undo each other.
C27_WrapCycleIsBijection ==
    CycledSlot(TRUE) =>
        /\ result \in 1..op.input.offset
        /\ \A b \in 1..op.input.offset :
               cycle_target(b, op.input.offset, op.input.direction, TRUE)
                   = result => b = op.input.base
        /\ \E b \in 1..op.input.offset :
               cycle_target(b, op.input.offset, op.input.direction, TRUE)
                   = op.input.base
        /\ cycle_target(result, op.input.offset,
                        Opposite(op.input.direction), TRUE) = op.input.base

\* Prev from the first of three slots wraps to the last
C27_Witness ==
    /\ CycledSlot(TRUE)
    /\ op.input.direction = "Prev"
    /\ op.input.base = 1
    /\ op.input.offset = PairedOffset + 1
    /\ result = PairedOffset + 1

\* C28: without wrap, cycle_target stays in [1, offset]: Next is base + 1
\* below the last slot and offset at the last slot, Prev is base - 1 above
\* the first slot and 1 at the first slot.
C28_NoWrapCycleClamps ==
    CycledSlot(FALSE) =>
        /\ result \in 1..op.input.offset
        /\ op.input.direction = "Next" =>
               result = IF op.input.base < op.input.offset
                        THEN op.input.base + 1 ELSE op.input.offset
        /\ op.input.direction = "Prev" =>
               result = IF op.input.base > 1 THEN op.input.base - 1 ELSE 1

\* Next at the last slot stays there
C28_Witness ==
    /\ CycledSlot(FALSE)
    /\ op.input.direction = "Next"
    /\ op.input.offset = PairedOffset
    /\ op.input.base = PairedOffset
    /\ result = PairedOffset

\* the step is a callback of the listener thread: the channel grew
ListenerStep == Len(channel'.queue) > Len(channel.queue)

\* the step is a turn of the consuming loop: it took the oldest event of
\* the channel, or handles the Timeout or the closing it found on an empty
\* channel
LoopStep ==
    \/ /\ channel.queue # << >>
       /\ event' = Head(channel.queue)
       /\ channel' = [channel EXCEPT !.queue = Tail(@)]
    \/ /\ channel.queue = << >> \/ channel.timed_out
       /\ event'.type \in {"Timeout", "Disconnected"}
       /\ channel'.queue = channel.queue

\* C29: with the native event source a step of the listener thread only
\* adds an event to the channel and leaves both debounce states (and what
\* the loop did last) as they are; the debounce states change in turns of
\* the consuming loop only, however callbacks and turns interleave.
C29_DebounceOwnedByLoop ==
    [][/\ ListenerStep =>
              UNCHANGED << rebalance_debounce, focus_debounce, event, result,
                           calls, loop >>
       /\ (\/ rebalance_debounce' # rebalance_debounce
           \/ focus_debounce' # focus_debounce) => LoopStep]_vars

\* a callback sent an event after the loop deferred a rebalance and
\* accepted a switch: the event waits in the channel
C29_Witness ==
    /\ channel.queue # << >>
    /\ rebalance_debounce.pending
    /\ focus_debounce.last_switch # None
    /\ loop = "running"

\* C30: any two rebalance batches issued through the debounce, by a monitor
\* event or by a flush, are at least minInterval apart: a batch is issued
\* no sooner than minInterval after the batch before it.
C30_BatchesSpacedByInterval ==
    [][ ( /\ Handled("Monitor") \/ Handled("Timeout")
          /\ calls' # << >>
          /\ hist.lastBatchAt # None )
        => /\ event'.at - hist.lastBatchAt >= DEFAULT_REBALANCE_DEBOUNCE
           /\ rebalance_debounce'.last_rebalance = event'.at ]_vars

\* a flush issued the deferred rebalance exactly minInterval after the
\* event it was deferred for, itself later than the batch before
C30_Witness ==
    /\ event.type = "Timeout"
    /\ calls # << >>
    /\ rebalance_debounce.last_rebalance = event.at
    /\ hist.prevMonAt # None
    /\ event.at - hist.prevMonAt = DEFAULT_REBALANCE_DEBOUNCE

\* some call of the sequence is the rebalance batch
IssuesRebalance(cs) ==
    \E i \in 1..Len(cs) :
        cs[i].kind = "batch" /\ cs[i].cmds = TheRebalanceBatch

C32_NoMonitorEventLost ==
    ( hist.prevMonAt # None /\ ~rebalance_debounce.pending )
        => /\ rebalance_debounce.last_rebalance # None
           /\ rebalance_debounce.last_rebalance >= hist.prevMonAt

\* a deferred monitor event is covered by a rebalance decided later than it
C32_Witness ==
    /\ hist.prevMonAt # None
    /\ hist.lastMon = "deferred"
    /\ ~rebalance_debounce.pending
    /\ rebalance_debounce.last_rebalance > hist.prevMonAt

\* C33: recording last_event on every record_event, as the code does, and
\* not only on a deferral, as specified, cannot be observed: after every
\* sequence of record_event and flush calls at non-decreasing times the two
\* debounces returned the same decision to the last call and agree on
\* pending and on last_rebalance.
C33_LastEventOnRunUnobservable ==
    /\ result.code = result.specified
    /\ rebalance_debounce.pending = hist.specified.pending
    /\ rebalance_debounce.last_rebalance = hist.specified.last_rebalance

\* a flush was called while the two debounces held different last_event
C33_Witness ==
    /\ op.name = "flush"
    /\ rebalance_debounce.last_event # hist.specified.last_event
    /\ rebalance_debounce.last_event # None
    /\ now - rebalance_debounce.last_event >= DEFAULT_REBALANCE_DEBOUNCE

\* the times at or after `at`
TimesFrom(at) == { t \in 0..MaxTime : t >= at }

\* C34: the rebalance debounce is advanced before the batch is sent: when
\* the rebalance batch of a monitor event or of a flush fails, lastRebalance
\* is already the time of the attempt and pending is already false, so a
\* flush at any later time issues nothing and leaves the debounce as it is;
\* the rebalance is attempted again only for a new monitor event, at once
\* when the interval since the failed attempt has elapsed and deferred
\* otherwise.
C34_FailedBatchNotRetried ==
    [][ ( /\ Handled("Monitor") \/ Handled("Timeout")
          /\ result' = "Err" )
        => /\ IssuesRebalance(calls')
           /\ rebalance_debounce'.last_rebalance = event'.at
           /\ ~rebalance_debounce'.pending
           /\ \A t \in TimesFrom(event'.at) :
                 /\ flush(rebalance_debounce', t)
                       = [state |-> rebalance_debounce', ret |-> FALSE]
                 /\ record_event(rebalance_debounce', t).ret
                       <=> t - event'.at >= DEFAULT_REBALANCE_DEBOUNCE ]_vars

\* the batch of a flush failed: the deferred rebalance is no longer pending
C34_Witness ==
    /\ event.type = "Timeout"
    /\ result = "Err"
    /\ IssuesRebalance(calls)
    /\ hist.lastMon = "deferred"
    /\ ~rebalance_debounce.pending
    /\ rebalance_debounce.last_rebalance = event.at

\* C35: the focus debounce remembers only the slot accepted last: a focus
\* event for another slot than the one accepted last is accepted and issues
\* exactly the paired switch to its workspace however close it arrives,
\* also when its own slot was accepted less than minInterval ago; so an
\* alternation A, B, A, B, ... issues one batch per event.
C35_AlternationAlwaysAccepted ==
    [][ ( /\ HandledFocusId
          /\ hist.lastSlot # None
          /\ SlotOf(event'.workspace_id) # hist.lastSlot )
        => /\ OneBatch(calls', paired_switch_batch(Primary, Secondary,
                                  event'.workspace_id, PairedOffset))
           /\ focus_debounce'.last_workspace = SlotOf(event'.workspace_id)
           /\ focus_debounce'.last_switch = event'.at
           /\ hist'.alternations > 0 \/ event'.at - hist.acceptedAt[hist.lastSlot]
                                            >= DEFAULT_FOCUS_SWITCH_DEBOUNCE ]_vars

\* three switches in a row alternated between slots at the same instant
C35_Witness ==
    /\ event.type = "Focus"
    /\ calls # << >>
    /\ hist.alternations >= 3
    /\ \A s \in Slots : hist.acceptedAt[s] # None => hist.acceptedAt[s] = event.at

\* C36: the timestamps handed to the debounce controllers never decrease
\* in processing order: an event handed to its handler carries a timestamp
\* at or after that of the event handled before it (with the native source
\* a Timeout is not followed by an event the listener stamped earlier).
C36_TimestampsNonDecreasing ==
    [][ ( event'.at # None /\ event.at # None )
        => event'.at >= event.at ]_vars

\* C37: the socket source delivers a Timeout only when the read has waited
\* the whole window since the last line of any kind; an empty or
\* unrecognized line is handed to no handler and restarts the wait, so a
\* pending rebalance stays pending, and is flushed only by a Timeout that
\* comes a whole window after the last such line.
C37_IgnoredLinesRestartWait ==
    [][ /\ Handled("Timeout") => now - waitStart >= ReadTimeout
        /\ Handled("None")
              => /\ waitStart' = now
                 /\ calls' = << >>
                 /\ UNCHANGED << rebalance_debounce, focus_debounce, loop >>
        /\ ( now' = now /\ rebalance_debounce.pending
                         /\ ~rebalance_debounce'.pending )
              => \/ Handled("Monitor")
                 \/ Handled("Timeout") /\ now - waitStart >= ReadTimeout ]_vars

\* a rebalance is still pending a quiet period and a window after it was
\* deferred: lines that are no event kept the Timeout from being delivered
C37_Witness ==
    /\ event = NoEvent
    /\ waitStart = now
    /\ loop = "running"
    /\ rebalance_debounce.pending
    /\ now - rebalance_debounce.last_event
          >= DEFAULT_REBALANCE_DEBOUNCE + ReadTimeout

\* C38: every batch the focus-follow path of the daemon issues ends with
\* focusmonitor primary followed by workspace normalize(w), w being the
\* workspace the focus event names or its window is on; so after a focus
\* event for a workspace of the secondary monitor the primary monitor is the
\* one focused last.
C38_FocusFollowEndsOnPrimary ==
    [][ ( Handled("Focus") /\ calls' # << >> )
        => /\ Len(calls') = 1
           /\ IsBatchCall(calls'[1])
           /\ Len(calls'[1].cmds) >= 2
           /\ calls'[1].cmds[Len(calls'[1].cmds) - 1]
                 = Directive("focusmonitor", 0, << >>, Primary, "")
           /\ calls'[1].cmds[Len(calls'[1].cmds)]
                 = Directive("workspace", hist'.lastSlot, << >>, "", "")
           /\ hist'.lastSlot \in Slots
           /\ event'.workspace_id # None
                 => hist'.lastSlot = SlotOf(event'.workspace_id)
           /\ LastFocusedMonitor(calls'[1].cmds) = Primary ]_vars

\* a focus event for a workspace of the secondary monitor issued its batch
C38_Witness ==
    /\ event.type = "Focus"
    /\ event.workspace_id # None
    /\ event.workspace_id > PairedOffset
    /\ calls # << >>
    /\ LastFocusedMonitor(calls[1].cmds) = Primary

\* cold restore ran with the state of its matching loop kept, on live
\* clients with distinct addresses
ColdMatched ==
    /\ op.name = "restore_cold_matching"
    /\ DistinctAddresses(op.input.current_clients)

\* the turn of the matching loop for the i-th live client accepted a match
MatchedAt(i) ==
    result.steps[i] # result.steps[i - 1]

\* C39: cold-restore matching is injective: for live clients with distinct
\* addresses a turn of the matching loop that accepts a match marks exactly
\* one snapshot client, one that no earlier turn marked, and the address of
\* its live client; so as many snapshot clients are used as live clients
\* are matched.  The batch holds at most one move per live client, and the
\* moves of a matched client are those of the matching loop alone.
C39_ColdMatchingInjective ==
    ColdMatched =>
        LET current_clients == op.input.current_clients
            n == Len(current_clients)
        IN /\ \A i \in 1..n :
                 MatchedAt(i) =>
                    /\ Cardinality(result.steps[i].used_snapshot
                                      \ result.steps[i - 1].used_snapshot) = 1
                    /\ result.steps[i - 1].used_snapshot
                          \subseteq result.steps[i].used_snapshot
                    /\ result.steps[i].matched_addresses
                          = result.steps[i - 1].matched_addresses
                               \cup {current_clients[i].address}
                    /\ current_clients[i].address
                          \notin result.steps[i - 1].matched_addresses
           /\ Cardinality(result.steps[n].used_snapshot)
                 = Cardinality(result.steps[n].matched_addresses)
           /\ Cardinality(result.steps[n].used_snapshot)
                 = Cardinality({ i \in 1..n : MatchedAt(i) })
           /\ \A i \in 1..n :
                 /\ Cardinality(MovesOf(result.batch,
                                        current_clients[i].address)) <= 1
                 /\ current_clients[i].address
                          \in result.steps[n].matched_addresses
                       => Cardinality(MovesOf(result.batch,
                                              current_clients[i].address))
                            = Cardinality(MovesOf(result.steps[n].batch,
                                                  current_clients[i].address))

\* two live clients score 4 or more against the one snapshot client: the
\* first is matched to it and moved, the second is left out
C39_Witness ==
    /\ ColdMatched
    /\ Len(op.input.snapshot.clients) = 1
    /\ Len(op.input.current_clients) = 2
    /\ \A i \in 1..2 :
          match_score(op.input.snapshot.clients[1],
                      op.input.current_clients[i]) >= 4
    /\ MatchedAt(1)
    /\ ~MatchedAt(2)
    /\ MovesOf(result.batch, op.input.current_clients[1].address) # {}

\* restore ran twice on a snapshot and a live list with distinct addresses
RestoredTwice ==
    /\ op.name = "restore_twice"
    /\ DistinctAddresses(op.input.snapshot.clients)
    /\ DistinctAddresses(op.input.current_clients)

\* C40: restore is idempotent in both modes: for a snapshot and a live
\* list each with distinct addresses, once every move of the batch is
\* applied to the live clients (their workspace id and name become those of
\* the move's target), restore_batch with the same snapshot, mode and
\* signatures returns an empty batch.
C40_RestoreIdempotent ==
    RestoredTwice => result.second = << >>

\* a cold restore moved two clients, one of them to a special workspace,
\* and found nothing to move the second time
C40_Witness ==
    /\ RestoredTwice
    /\ Len(op.input.current_clients) = 2
    /\ Len(result.first) = 2
    /\ result.moved # op.input.current_clients
    /\ resolve_restore_mode(op.input.mode, op.input.snapshot.signature,
                            op.input.current_signature) = "Cold"
    /\ \E i \in 1..Len(result.first) : result.first[i].name # << >>
    /\ result.second = << >>

====
